---- MODULE Spec2Model ----
(***************************************************************************)
(* Surgical document patcher of the ship data editor (shipDataEditor.py). *)
(* A text is a sequence of one-character strings; offsets are 0-based and *)
(* slices are half-open, as in the Python source.                         *)
(***************************************************************************)
EXTENDS Integers, Sequences, FiniteSets, TLC

VARIABLES
    raw_text,   \* _raw_text: the held Document
    file_text,  \* the content of the data file on disk
    pre_text,   \* history: raw_text before the last operation
    last,       \* history: the last operation, its inputs and its result
    nops        \* history: the number of operations so far

vars == <<raw_text, file_text, pre_text, last, nops>>

----------------------------------------------------------------------------
(* Python str primitives *)

At(text, i) == text[i + 1]

Slice(text, a, b) == SubSeq(text, a + 1, b)

StartsWith(text, w, i) ==
    /\ i >= 0
    /\ i + Len(w) <= Len(text)
    /\ SubSeq(text, i + 1, i + Len(w)) = w

Least(S) == CHOOSE i \in S : \A j \in S : i <= j

Greatest(S) == CHOOSE i \in S : \A j \in S : i >= j

(* text.find(w, from) *)
Find(text, w, from) ==
    LET S == {i \in from .. (Len(text) - Len(w)) : StartsWith(text, w, i)}
    IN  IF S = {} THEN -1 ELSE Least(S)

(* text.rfind(w, 0, to) *)
RFind(text, w, to) ==
    LET S == {i \in 0 .. (to - Len(w)) : StartsWith(text, w, i)}
    IN  IF S = {} THEN -1 ELSE Greatest(S)

Contains(text, w) == Find(text, w, 0) # -1

Space == {" ", "\t", "\n", "\r", "\f"}

IsSpace(ch) == ch \in Space

RECURSIVE LStrip(_)
LStrip(text) ==
    IF text # <<>> /\ IsSpace(Head(text)) THEN LStrip(Tail(text)) ELSE text

RECURSIVE RStrip(_)
RStrip(text) ==
    IF text # <<>> /\ IsSpace(text[Len(text)])
    THEN RStrip(SubSeq(text, 1, Len(text) - 1)) ELSE text

Strip(text) == LStrip(RStrip(text))

RECURSIVE Replace(_, _, _)
Replace(text, ch, w) ==
    IF text = <<>> THEN <<>>
    ELSE (IF Head(text) = ch THEN w ELSE <<Head(text)>>) \o Replace(Tail(text), ch, w)

(* sep.join(lines) *)
RECURSIVE Join(_, _)
Join(lines, sep) ==
    IF lines = <<>> THEN <<>>
    ELSE IF Len(lines) = 1 THEN lines[1]
    ELSE lines[1] \o sep \o Join(Tail(lines), sep)

----------------------------------------------------------------------------
(* Python re: a backtracking matcher.  Ends(r, text, p) lists the offsets  *)
(* at which r can stop when started at p, most preferred first.  Star1 is *)
(* a greedy star whose body can stop at one offset at most (such as the   *)
(* body of a quoted string), so that backtracking walks one chain.        *)

Cls(S) == [t |-> "cls", s |-> S, neg |-> FALSE]
NotCls(S) == [t |-> "cls", s |-> S, neg |-> TRUE]
Lit(w) == [t |-> "lit", w |-> w]
Cat(rs) == [t |-> "cat", rs |-> rs]
Alt(rs) == [t |-> "alt", rs |-> rs]
Star(r) == [t |-> "star", r |-> r]
Star1(r) == [t |-> "star1", r |-> r]
Lazy(r) == [t |-> "lazy", r |-> r]
Opt(r) == [t |-> "opt", r |-> r]
Plus(r) == Cat(<<r, Star(r)>>)
Bol == [t |-> "bol"]
Eol == [t |-> "eol"]
Dot == NotCls({})
Ws == Cls(Space)

(* the first offset at or after p whose character is outside the class *)
ClassStop(c, text, p) ==
    Least({j \in p .. Len(text) : j = Len(text) \/ ((At(text, j) \in c.s) = c.neg)})

RECURSIVE Ends(_, _, _)
RECURSIVE EndsFrom(_, _, _, _, _)
RECURSIVE CatEnds(_, _, _, _)
RECURSIVE AltEnds(_, _, _, _)
RECURSIVE Chain(_, _, _, _, _)

Ends(r, text, p) ==
    CASE r.t = "lit" -> IF StartsWith(text, r.w, p) THEN <<p + Len(r.w)>> ELSE <<>>
      [] r.t = "cls" -> IF p < Len(text) /\ ((At(text, p) \in r.s) # r.neg)
                        THEN <<p + 1>> ELSE <<>>
      [] r.t = "bol" -> IF p = 0 \/ At(text, p - 1) = "\n" THEN <<p>> ELSE <<>>
      [] r.t = "eol" -> IF p = Len(text) \/ At(text, p) = "\n" THEN <<p>> ELSE <<>>
      [] r.t = "cat" -> CatEnds(r.rs, 1, text, <<p>>)
      [] r.t = "alt" -> AltEnds(r.rs, 1, text, p)
      [] r.t = "opt" -> Ends(r.r, text, p) \o <<p>>
      [] r.t = "star" ->
            IF r.r.t = "cls"
            THEN LET stop == ClassStop(r.r, text, p)
                 IN  [k \in 1 .. (stop - p + 1) |-> stop - k + 1]
            ELSE LET es == SelectSeq(Ends(r.r, text, p), LAMBDA e : e # p)
                 IN  EndsFrom(r, text, es, 1, Len(es)) \o <<p>>
      [] r.t = "star1" ->
            LET c == Chain(r.r, text, [i |-> p, out |-> <<p>>, done |-> FALSE], p, Len(text)).out
            IN  [k \in 1 .. Len(c) |-> c[Len(c) - k + 1]]
      [] r.t = "lazy" ->
            IF r.r.t = "cls"
            THEN LET stop == ClassStop(r.r, text, p)
                 IN  [k \in 1 .. (stop - p + 1) |-> p + k - 1]
            ELSE LET es == SelectSeq(Ends(r.r, text, p), LAMBDA e : e # p)
                 IN  <<p>> \o EndsFrom(r, text, es, 1, Len(es))

(* the ends of r started at ps[lo], ..., ps[hi], in that order *)
EndsFrom(r, text, ps, lo, hi) ==
    IF lo > hi THEN <<>>
    ELSE IF lo = hi THEN Ends(r, text, ps[lo])
    ELSE LET mid == (lo + hi) \div 2
         IN  EndsFrom(r, text, ps, lo, mid) \o EndsFrom(r, text, ps, mid + 1, hi)

CatEnds(rs, k, text, ps) ==
    IF k > Len(rs) THEN ps
    ELSE CatEnds(rs, k + 1, text, EndsFrom(rs[k], text, ps, 1, Len(ps)))

AltEnds(rs, k, text, p) ==
    IF k > Len(rs) THEN <<>>
    ELSE Ends(rs[k], text, p) \o AltEnds(rs, k + 1, text, p)

(* the offsets reached by repeating body from st.i, over offsets lo..hi-1 *)
Chain(body, text, st, lo, hi) ==
    IF st.done \/ lo >= hi THEN st
    ELSE IF hi - lo = 1
    THEN IF st.i # lo THEN st
         ELSE LET es == SelectSeq(Ends(body, text, lo), LAMBDA e : e # lo)
              IN  IF es = <<>> THEN [st EXCEPT !.done = TRUE]
                  ELSE [st EXCEPT !.i = es[1], !.out = Append(@, es[1])]
    ELSE LET mid == (lo + hi) \div 2
             half == Chain(body, text, st, lo, mid)
         IN  Chain(body, text, half, mid, hi)

NoMatch == <<-1>>

(* The group boundaries <<e_k, ..., e_n>> of the first successful path of  *)
(* parts k..n started at p, or NoMatch.                                     *)
RECURSIVE Path(_, _, _, _)
RECURSIVE TryEnds(_, _, _, _, _, _)

Path(parts, k, text, p) ==
    IF k > Len(parts) THEN <<>>
    ELSE LET es == Ends(parts[k], text, p) IN TryEnds(parts, k, text, es, 1, Len(es))

(* the first of es[lo], ..., es[hi] from which the later parts match *)
TryEnds(parts, k, text, es, lo, hi) ==
    IF lo > hi THEN NoMatch
    ELSE IF lo = hi
    THEN LET rest == Path(parts, k + 1, text, es[lo])
         IN  IF rest # NoMatch THEN <<es[lo]>> \o rest ELSE NoMatch
    ELSE LET mid == (lo + hi) \div 2
             left == TryEnds(parts, k, text, es, lo, mid)
         IN  IF left # NoMatch THEN left ELSE TryEnds(parts, k, text, es, mid + 1, hi)

(* The leftmost match starting in [lo, hi): <<start, e_1, ..., e_n>>. *)
RECURSIVE SearchIn(_, _, _, _)
SearchIn(parts, text, lo, hi) ==
    IF lo >= hi THEN NoMatch
    ELSE IF hi - lo = 1
    THEN LET m == Path(parts, 1, text, lo) IN IF m # NoMatch THEN <<lo>> \o m ELSE NoMatch
    ELSE LET mid == (lo + hi) \div 2
             left == SearchIn(parts, text, lo, mid)
         IN  IF left # NoMatch THEN left ELSE SearchIn(parts, text, mid, hi)

(* re.search from offset s *)
Search(parts, text, s) == SearchIn(parts, text, s, Len(text) + 1)

(* re.finditer: the successive non-overlapping matches. *)
RECURSIVE FindIter(_, _, _)
FindIter(parts, text, s) ==
    LET m == Search(parts, text, s)
    IN  IF m = NoMatch THEN <<>>
        ELSE LET e == m[Len(m)]
             IN  <<m>> \o FindIter(parts, text, IF e = m[1] THEN e + 1 ELSE e)

----------------------------------------------------------------------------
(* Values handed over by the forms: strings, numbers and booleans.         *)

StrV(s) == [kind |-> "str", s |-> s]
NumV(n) == [kind |-> "num", n |-> n]
BoolV(b) == [kind |-> "bool", b |-> b]

Digit(d) == <<"0", "1", "2", "3", "4", "5", "6", "7", "8", "9">>[d + 1]

RECURSIVE NatStr(_)
NatStr(n) == IF n < 10 THEN <<Digit(n)>> ELSE NatStr(n \div 10) \o <<Digit(n % 10)>>

IntStr(n) == IF n < 0 THEN <<"-">> \o NatStr(-n) ELSE NatStr(n)

_repr_hjson_scalar(v) ==
    CASE v.kind = "bool" -> IF v.b THEN <<"t", "r", "u", "e">> ELSE <<"f", "a", "l", "s", "e">>
      [] v.kind = "num" -> IntStr(v.n)
      [] v.kind = "str" ->
            <<"\"">> \o Replace(Replace(v.s, "\\", <<"\\", "\\">>), "\"", <<"\\", "\"">>)
                     \o <<"\"">>

----------------------------------------------------------------------------
(* Banner stamp *)

BannerKey == <<"#", "O", "r", "i", "o", "n", "S", "h", "i", "p", "E", "d", "i", "t", "o", "r">>

DqBody == Star1(Alt(<<Cat(<<Lit(<<"\\">>), Dot>>), NotCls({"\"", "\\"})>>))

banner_rx ==
    << Bol,
       Star(Cls({" ", "\t"})),
       Cat(<< Opt(Lit(<<"\"">>)), Lit(BannerKey), Lit(<<"\"">>), Star(Ws), Lit(<<":">>),
              Star(Ws), Lit(<<"\"">>), DqBody, Lit(<<"\"">>), Star(Ws), Opt(Lit(<<",">>)),
              Star(Ws), Eol >> ) >>

BannerLine(banner) ==
    <<"\"">> \o BannerKey \o <<"\"", ":", " ", "\"">>
        \o Replace(Replace(banner, "\\", <<"\\", "\\">>), "\"", <<"\\", "\"">>)
        \o <<"\"", ",">>

(* the replace path for a match m of the banner line, else the insert   *)
(* after the first brace                                                  *)
Upserted(text, banner, m, brace) ==
    IF m # NoMatch
    THEN Slice(text, 0, m[1]) \o Slice(text, m[2], m[3]) \o BannerLine(banner)
            \o Slice(text, m[4], Len(text))
    ELSE IF brace = -1 THEN text
    ELSE Slice(text, 0, brace + 1)
            \o (IF Contains(text, <<"\r", "\n">>) THEN <<"\r", "\n">> ELSE <<"\n">>)
            \o <<" ", " ">> \o BannerLine(banner)
            \o Slice(text, brace + 1, Len(text))

(* a stamp that leaves the text as it is *)
_upsert_editor_banner_simple_skipped(text, banner) == text

_upsert_editor_banner_simple(text, banner) ==
    Upserted(text, banner, Search(banner_rx, text, 0), Find(text, <<"{">>, 0))

----------------------------------------------------------------------------
(* Region locator *)

ShipListKeys ==
    << <<"\"", "#", "s", "h", "i", "p", "-", "l", "i", "s", "t", "\"">>,
       <<"'", "#", "s", "h", "i", "p", "-", "l", "i", "s", "t", "'">>,
       <<"#", "s", "h", "i", "p", "-", "l", "i", "s", "t">>,
       <<"\"", "s", "h", "i", "p", "-", "l", "i", "s", "t", "\"">>,
       <<"'", "s", "h", "i", "p", "-", "l", "i", "s", "t", "'">>,
       <<"s", "h", "i", "p", "-", "l", "i", "s", "t">> >>

None == <<>>

(* a skip that leaves the cursor on the comment marker *)
SkipLineFind_stuck(text, j) == j

(* text.find('\n', j) then "n if nl == -1 else nl + 1" *)
SkipLineFind(text, j) ==
    LET nl == Find(text, <<"\n">>, j) IN IF nl = -1 THEN Len(text) ELSE nl + 1

(* text.find('*/', j + 2) then "n if end == -1 else end + 2" *)
SkipBlockFind(text, j) ==
    LET e == Find(text, <<"*", "/">>, j + 2) IN IF e = -1 THEN Len(text) ELSE e + 2

(* while j < n and raw[j] != "\n": j += 1 *)
skip_line_comment(raw, j) ==
    LET nl == Find(raw, <<"\n">>, j) IN IF nl = -1 THEN (IF j < Len(raw) THEN Len(raw) ELSE j) ELSE nl

(* j += 2; while j < n-1: if raw[j:j+2] == "*/": return j + 2 ...; return n *)
skip_block_comment(raw, j) ==
    LET e == Find(raw, <<"*", "/">>, j + 2) IN IF e = -1 THEN Len(raw) ELSE e + 2

IsLineComment(text, i) == StartsWith(text, <<"/", "/">>, i) \/ At(text, i) = "#"

IsBlockComment(text, i) == StartsWith(text, <<"/", "*">>, i)

(* One pass of "while i < n" after the colon: st.i is the cursor. *)
SkipStep(text, st) ==
    LET i == st.i IN
    IF IsSpace(At(text, i)) THEN [st EXCEPT !.i = i + 1]
    ELSE IF IsLineComment(text, i) THEN [st EXCEPT !.i = SkipLineFind(text, i)]
    ELSE IF IsBlockComment(text, i) THEN [st EXCEPT !.i = SkipBlockFind(text, i)]
    ELSE [st EXCEPT !.done = TRUE]

(* One pass of the bracket balance of _extract_ship_list_region.  The     *)
(* source compares the one-character ch with the two-character '\\\\'.     *)
ArrayStep(text, st) ==
    LET k == st.i
        ch == At(text, k)
        in_str == st.in_dq \/ st.in_sq
    IN  IF ~in_str /\ IsLineComment(text, k) THEN [st EXCEPT !.i = SkipLineFind(text, k)]
        ELSE IF ~in_str /\ IsBlockComment(text, k) THEN [st EXCEPT !.i = SkipBlockFind(text, k)]
        ELSE IF in_str
        THEN IF st.esc THEN [st EXCEPT !.esc = FALSE, !.i = k + 1]
             ELSE IF <<ch>> = <<"\\", "\\">> THEN [st EXCEPT !.esc = TRUE, !.i = k + 1]
             ELSE IF st.in_dq /\ ch = "\"" THEN [st EXCEPT !.in_dq = FALSE, !.i = k + 1]
             ELSE IF st.in_sq /\ ch = "'" THEN [st EXCEPT !.in_sq = FALSE, !.i = k + 1]
             ELSE [st EXCEPT !.i = k + 1]
        ELSE IF ch = "\"" THEN [st EXCEPT !.in_dq = TRUE, !.i = k + 1]
        ELSE IF ch = "'" THEN [st EXCEPT !.in_sq = TRUE, !.i = k + 1]
        ELSE IF ch = "[" THEN [st EXCEPT !.depth = @ + 1, !.i = k + 1]
        ELSE IF ch = "]"
        THEN IF st.depth - 1 = 0 THEN [st EXCEPT !.depth = 0, !.end = k + 1, !.done = TRUE]
             ELSE [st EXCEPT !.depth = @ - 1, !.i = k + 1]
        ELSE [st EXCEPT !.i = k + 1]

(* One pass of _iter_top_level_flow_maps; in_q is "" for None, b_start -1. *)
FlowStep(text, st) ==
    LET i == st.i
        ch == At(text, i)
        nx == [st EXCEPT !.i = i + 1]
    IN  IF st.in_q # ""
        THEN IF ch = st.in_q /\ At(text, i - 1) # "\\" THEN [nx EXCEPT !.in_q = ""] ELSE nx
        ELSE IF ch \in {"\"", "'"} THEN [nx EXCEPT !.in_q = ch]
        ELSE IF ch = "{"
        THEN [nx EXCEPT !.depth = @ + 1, !.b_start = IF st.depth = 0 THEN i ELSE @]
        ELSE IF ch = "}"
        THEN IF st.depth - 1 = 0 /\ st.b_start # -1
             THEN [nx EXCEPT !.depth = 0, !.b_start = -1,
                             !.out = Append(@, <<st.b_start, i + 1>>)]
             ELSE [nx EXCEPT !.depth = @ - 1]
        ELSE nx

(* One pass of the forward balance of find_object_bounds. *)
ForwardStep(raw, st) ==
    LET i == st.i
        ch == At(raw, i)
        in_str == st.in_dq \/ st.in_sq
    IN  IF ~in_str /\ IsLineComment(raw, i) THEN [st EXCEPT !.i = skip_line_comment(raw, i)]
        ELSE IF ~in_str /\ IsBlockComment(raw, i) THEN [st EXCEPT !.i = skip_block_comment(raw, i)]
        ELSE IF in_str
        THEN IF st.esc THEN [st EXCEPT !.esc = FALSE, !.i = i + 1]
             ELSE IF ch = "\\" THEN [st EXCEPT !.esc = TRUE, !.i = i + 1]
             ELSE IF st.in_dq /\ ch = "\"" THEN [st EXCEPT !.in_dq = FALSE, !.i = i + 1]
             ELSE IF st.in_sq /\ ch = "'" THEN [st EXCEPT !.in_sq = FALSE, !.i = i + 1]
             ELSE [st EXCEPT !.i = i + 1]
        ELSE IF ch = "\"" THEN [st EXCEPT !.in_dq = TRUE, !.i = i + 1]
        ELSE IF ch = "'" THEN [st EXCEPT !.in_sq = TRUE, !.i = i + 1]
        ELSE IF ch = "{" THEN [st EXCEPT !.depth = @ + 1, !.i = i + 1]
        ELSE IF ch = "}"
        THEN IF st.depth - 1 = 0 THEN [st EXCEPT !.depth = 0, !.end = i + 1, !.done = TRUE]
             ELSE [st EXCEPT !.depth = @ - 1, !.i = i + 1]
        ELSE [st EXCEPT !.i = i + 1]

(* One pass of the backward walk of find_object_bounds. *)
BackwardStep(raw, st) ==
    LET i == st.i
        ch == At(raw, i)
        nx == [st EXCEPT !.i = i - 1]
    IN  IF st.in_dq \/ st.in_sq
        THEN IF st.esc THEN [nx EXCEPT !.esc = FALSE]
             ELSE IF ch = "\\" THEN [nx EXCEPT !.esc = TRUE]
             ELSE IF st.in_dq /\ ch = "\"" THEN [nx EXCEPT !.in_dq = FALSE]
             ELSE IF st.in_sq /\ ch = "'" THEN [nx EXCEPT !.in_sq = FALSE]
             ELSE nx
        ELSE IF ch = "\"" THEN [nx EXCEPT !.in_dq = TRUE]
        ELSE IF ch = "'" THEN [nx EXCEPT !.in_sq = TRUE]
        ELSE IF ch = "}" THEN [nx EXCEPT !.depth = @ + 1]
        ELSE IF ch = "{"
        THEN IF st.depth = 0 THEN [st EXCEPT !.end = i, !.done = TRUE]
             ELSE [nx EXCEPT !.depth = @ - 1]
        ELSE nx

(* One pass of the skip to the opening bracket in _patch_list_in_block:   *)
(* done with end = i at the bracket, done with end = -1 at another token. *)
ListSkipStep(block, st) ==
    LET i == st.i IN
    IF IsLineComment(block, i) THEN [st EXCEPT !.i = skip_line_comment(block, i)]
    ELSE IF IsBlockComment(block, i) THEN [st EXCEPT !.i = skip_block_comment(block, i)]
    ELSE IF IsSpace(At(block, i)) THEN [st EXCEPT !.i = i + 1]
    ELSE IF At(block, i) = "[" THEN [st EXCEPT !.end = i, !.done = TRUE]
    ELSE [st EXCEPT !.done = TRUE]

(* One pass of the bracket balance of _patch_list_in_block. *)
ListBalanceStep(block, st) ==
    LET j == st.i
        ch == At(block, j)
        in_str == st.in_dq \/ st.in_sq
    IN  IF ~in_str /\ IsLineComment(block, j) THEN [st EXCEPT !.i = skip_line_comment(block, j)]
        ELSE IF ~in_str /\ IsBlockComment(block, j)
        THEN [st EXCEPT !.i = skip_block_comment(block, j)]
        ELSE IF in_str
        THEN IF st.esc THEN [st EXCEPT !.esc = FALSE, !.i = j + 1]
             ELSE IF ch = "\\" THEN [st EXCEPT !.esc = TRUE, !.i = j + 1]
             ELSE IF st.in_dq /\ ch = "\"" THEN [st EXCEPT !.in_dq = FALSE, !.i = j + 1]
             ELSE IF st.in_sq /\ ch = "'" THEN [st EXCEPT !.in_sq = FALSE, !.i = j + 1]
             ELSE [st EXCEPT !.i = j + 1]
        ELSE IF ch = "\"" THEN [st EXCEPT !.in_dq = TRUE, !.i = j + 1]
        ELSE IF ch = "'" THEN [st EXCEPT !.in_sq = TRUE, !.i = j + 1]
        ELSE IF ch = "[" THEN [st EXCEPT !.depth = @ + 1, !.i = j + 1]
        ELSE IF ch = "]"
        THEN IF st.depth - 1 = 0 THEN [st EXCEPT !.depth = 0, !.end = j + 1, !.done = TRUE]
             ELSE [st EXCEPT !.depth = @ - 1, !.i = j + 1]
        ELSE [st EXCEPT !.i = j + 1]

Step(loop, text, st) ==
    CASE loop = "skip" -> SkipStep(text, st)
      [] loop = "array" -> ArrayStep(text, st)
      [] loop = "flow" -> FlowStep(text, st)
      [] loop = "forward" -> ForwardStep(text, st)
      [] loop = "backward" -> BackwardStep(text, st)
      [] loop = "list_skip" -> ListSkipStep(text, st)
      [] loop = "list_balance" -> ListBalanceStep(text, st)

(* The while loops: the passes at offsets lo .. hi-1 in rising order; a   *)
(* pass runs only at the cursor st.i, so a jump skips the offsets between. *)
RECURSIVE Run(_, _, _, _, _)
Run(loop, text, st, lo, hi) ==
    IF st.done \/ lo >= hi THEN st
    ELSE IF hi - lo = 1 THEN (IF st.i = lo THEN Step(loop, text, st) ELSE st)
    ELSE LET mid == (lo + hi) \div 2
             half == Run(loop, text, st, lo, mid)
         IN  Run(loop, text, half, mid, hi)

(* The same in falling order, for "while i >= 0: ... i -= 1". *)
RECURSIVE RunBack(_, _, _, _, _)
RunBack(loop, text, st, lo, hi) ==
    IF st.done \/ lo >= hi THEN st
    ELSE IF hi - lo = 1 THEN (IF st.i = lo THEN Step(loop, text, st) ELSE st)
    ELSE LET mid == (lo + hi) \div 2
             half == RunBack(loop, text, st, mid, hi)
         IN  RunBack(loop, text, half, lo, mid)

Scan0(i) ==
    [i |-> i, depth |-> 0, in_dq |-> FALSE, in_sq |-> FALSE, esc |-> FALSE,
     end |-> -1, done |-> FALSE]

(* The offset of the first significant character at or after i, or the    *)
(* text length when there is none.                                         *)
SkipInsignificant(text, i) ==
    LET st == Run("skip", text, Scan0(i), i, Len(text))
    IN  IF st.done THEN st.i ELSE Len(text)

RECURSIVE FirstKey(_, _)
FirstKey(text, k) ==
    IF k > Len(ShipListKeys) THEN <<-1, 0>>
    ELSE LET p == Find(text, ShipListKeys[k], 0)
         IN  IF p # -1 THEN <<p, Len(ShipListKeys[k])>> ELSE FirstKey(text, k + 1)

_extract_ship_list_region(text) ==
    LET key == FirstKey(text, 1)
        colon == Find(text, <<":">>, key[1] + key[2])
        i == SkipInsignificant(text, colon + 1)
        end == Run("array", text, Scan0(i), i, Len(text)).end
    IN  IF key[1] = -1 \/ colon = -1 THEN None
        ELSE IF i >= Len(text) \/ At(text, i) # "[" THEN None
        ELSE IF end = -1 THEN None
        ELSE <<i, end>>

(* The spellings in turn: one that is absent, has no colon after it or  *)
(* nothing significant after the colon passes the turn to the next.       *)
RECURSIVE LooksFrom(_, _)
LooksFrom(text, k) ==
    IF k > Len(ShipListKeys) THEN FALSE
    ELSE LET p == Find(text, ShipListKeys[k], 0)
             c == Find(text, <<":">>, p + Len(ShipListKeys[k]))
             i == SkipInsignificant(text, c + 1)
         IN  IF p = -1 \/ c = -1 THEN LooksFrom(text, k + 1)
             ELSE IF i < Len(text) THEN At(text, i) = "[" ELSE LooksFrom(text, k + 1)

_looks_hjsonish(text) == LooksFrom(text, 1)

_iter_top_level_flow_maps(text, start, end) ==
    Run("flow", text,
        [i |-> start, in_q |-> "", depth |-> 0, b_start |-> -1, out |-> <<>>, done |-> FALSE],
        start, end).out

Alnum ==
    {"A", "B", "C", "D", "E", "F", "G", "H", "I", "J", "K", "L", "M", "N", "O", "P", "Q",
     "R", "S", "T", "U", "V", "W", "X", "Y", "Z", "a", "b", "c", "d", "e", "f", "g", "h",
     "i", "j", "k", "l", "m", "n", "o", "p", "q", "r", "s", "t", "u", "v", "w", "x", "y",
     "z", "0", "1", "2", "3", "4", "5", "6", "7", "8", "9"}

comment ==
    Star(Cat(<< Star(Ws),
                Alt(<< Cat(<<Lit(<<"/", "/">>), Star(NotCls({"\n"}))>>),
                       Cat(<<Lit(<<"#">>), Star(NotCls({"\n"}))>>),
                       Cat(<<Lit(<<"/", "*">>), Lazy(Dot), Lit(<<"*", "/">>)>>) >>) >>))

val_alt ==
    Alt(<< Cat(<< Lit(<<"\"">>), Star(NotCls({"\"", "\\"})),
                  Star(Cat(<<Lit(<<"\\">>), Dot, Star(NotCls({"\"", "\\"}))>>)),
                  Lit(<<"\"">>) >>),
           Cat(<< Lit(<<"'">>), Star(NotCls({"'", "\\"})),
                  Star(Cat(<<Lit(<<"\\">>), Dot, Star(NotCls({"'", "\\"}))>>)),
                  Lit(<<"'">>) >>),
           Plus(Cls(Alnum \cup {"_", "-", "."})) >>)

key_pat ==
    << Cat(<< Opt(Lit(<<"\"">>)), Cls({"K", "k"}), Lit(<<"e", "y">>), Opt(Lit(<<"\"">>)),
              Star(Ws), Lit(<<":">>), Star(Ws), comment >>),
       val_alt >>

(* m.group("dval") or m.group("sval") or m.group("bval") or "" *)
MatchedValue(raw, m) ==
    IF At(raw, m[2]) \in {"\"", "'"} THEN Slice(raw, m[2] + 1, m[3] - 1)
    ELSE Slice(raw, m[2], m[3])

line_brace_rx == << Cat(<<Bol, Star(Ws), Lit(<<"{">>)>>) >>

(* "for mm in re.finditer(...): start = mm.end() - 1": the brace of the  *)
(* last match, -1 when there is none.                                      *)
LastBrace(ms) == IF ms = <<>> THEN -1 ELSE ms[Len(ms)][2] - 1

(* The last match of ^\s*\{ in raw[:anchor]: the offset of its brace. *)
LineAnchoredBrace(raw, anchor) == LastBrace(FindIter(line_brace_rx, Slice(raw, 0, anchor), 0))

(* "if start is None: ..." after the backward walk *)
StartOf(raw, anchor, walked) == IF walked # -1 THEN walked ELSE LineAnchoredBrace(raw, anchor)

(* "if start is None: return None", then the forward balance from start *)
BalanceFrom(raw, start) ==
    IF start = -1 THEN -1 ELSE Run("forward", raw, Scan0(start), start, Len(raw)).end

Bounds(start, end) == IF start = -1 \/ end = -1 THEN None ELSE <<start, end>>

BoundsFrom(raw, start) == Bounds(start, BalanceFrom(raw, start))

find_object_bounds(raw, anchor) ==
    BoundsFrom(raw, StartOf(raw, anchor, RunBack("backward", raw, Scan0(anchor), 0, anchor + 1).end))

(* "if bounds: yield bounds" *)
Yield(bounds) == IF bounds # None THEN <<bounds>> ELSE <<>>

RECURSIVE SpansOf(_, _, _, _)
SpansOf(raw, wanted, ms, k) ==
    IF k > Len(ms) THEN <<>>
    ELSE Yield(IF MatchedValue(raw, ms[k]) = wanted
               THEN find_object_bounds(raw, ms[k][1]) ELSE None)
            \o SpansOf(raw, wanted, ms, k + 1)

_iter_object_spans_for_key(raw, wanted) == SpansOf(raw, wanted, FindIter(key_pat, raw, 0), 1)

----------------------------------------------------------------------------
(* Field patcher *)

RECURSIVE Lits(_, _)
Lits(key_names, k) ==
    IF k > Len(key_names) THEN <<>> ELSE <<Lit(key_names[k])>> \o Lits(key_names, k + 1)

(* a value token whose double-quoted form ends at the next quote, escaped *)
(* or not                                                                  *)
value_tok_unescaped ==
    Alt(<< Cat(<<Lit(<<"\"">>), Star(NotCls({"\""})), Lit(<<"\"">>)>>),
           Cat(<< Lit(<<"'">>),
                  Star1(Alt(<<Cat(<<Lit(<<"\\">>), Dot>>), NotCls({"'", "\\"})>>)),
                  Plus(Lit(<<"'">>)) >>),
           Plus(NotCls({",", "\r", "\n", "}", "]"})) >>)

value_tok ==
    Alt(<< Cat(<<Lit(<<"\"">>), DqBody, Lit(<<"\"">>)>>),
           Cat(<< Lit(<<"'">>),
                  Star1(Alt(<<Cat(<<Lit(<<"\\">>), Dot>>), NotCls({"'", "\\"})>>)),
                  Plus(Lit(<<"'">>)) >>),
           Plus(NotCls({",", "\r", "\n", "}", "]"})) >>)

pattern(key_names) ==
    LET key_alt == Alt(Lits(key_names, 1))
    IN  << Cat(<< Alt(<<Cat(<<Lit(<<"\"">>), key_alt, Lit(<<"\"">>)>>), key_alt>>),
                  Star(Ws), Lit(<<":">>), Star(Ws), comment >>),
           value_tok >>

(* <<new_block, n>> *)
_patch_scalar_in_block(block, key_names, value_str) ==
    LET m == Search(pattern(key_names), block, 0)
    IN  IF m = NoMatch THEN <<block, 0>>
        ELSE <<Slice(block, 0, m[2]) \o value_str \o Slice(block, m[3], Len(block)), 1>>

(* a list of scalars handed over by the forms *)
ListV(items) == [kind |-> "list", items |-> items]

(* "[" + ", ".join(parts) + "]" *)
_repr_hjson_list(arr) ==
    <<"[">> \o Join([j \in 1 .. Len(arr) |-> _repr_hjson_scalar(arr[j])], <<",", " ">>) \o <<"]">>

(* a map handed over by the forms: its items in order, as <<key, value>> *)
MapV(d) == [kind |-> "map", items |-> d]

(* str.splitlines() of a text whose line breaks are "\n" *)
RECURSIVE SplitLines(_)
SplitLines(text) ==
    LET nl == Find(text, <<"\n">>, 0)
    IN  IF text = <<>> THEN <<>>
        ELSE IF nl = -1 THEN <<text>>
        ELSE <<Slice(text, 0, nl)>> \o SplitLines(Slice(text, nl + 1, Len(text)))

(* the lines of one item: a value of several lines keeps its lines, each   *)
(* prefixed with inner, and the comma goes after the last of them          *)
BlockLines(head, ls, inner) ==
    LET all == << inner \o head \o ls[1] >> \o [j \in 1 .. Len(ls) - 1 |-> inner \o ls[j + 1]]
    IN  [all EXCEPT ![Len(all)] = @ \o <<",">>]

ItemLines(head, val_str, inner) ==
    IF Contains(val_str, <<"\n">>)
    THEN BlockLines(head, SplitLines(val_str), inner)
    ELSE << inner \o head \o val_str \o <<",">> >>

(* "if len(lines) > 1 and lines[-1].endswith(','): lines[-1] = lines[-1][:-1]" *)
DropLastComma(lines) ==
    IF Len(lines) > 1 /\ Len(lines[Len(lines)]) > 0 /\ lines[Len(lines)][Len(lines[Len(lines)])] = ","
    THEN [lines EXCEPT ![Len(lines)] = SubSeq(@, 1, Len(@) - 1)]
    ELSE lines

RECURSIVE _repr_hjson_value_pretty(_, _)
RECURSIVE MapLines(_, _, _)
RECURSIVE ListLines(_, _, _)

MapLines(d, inner, j) ==
    IF j > Len(d) THEN <<>>
    ELSE ItemLines(<<"\"">> \o Replace(d[j][1], "\"", <<"\\", "\"">>) \o <<"\"", ":", " ">>,
                   _repr_hjson_value_pretty(d[j][2], inner), inner)
         \o MapLines(d, inner, j + 1)

ListLines(arr, inner, j) ==
    IF j > Len(arr) THEN <<>>
    ELSE ItemLines(<<>>, _repr_hjson_value_pretty(arr[j], inner), inner)
         \o ListLines(arr, inner, j + 1)

(* the comma added after the last item is taken off again *)
_repr_hjson_map_pretty(d, indent) ==
    Join(DropLastComma(<< <<"{">> >> \o MapLines(d, indent \o <<" ", " ">>, 1))
         \o << indent \o <<"}">> >>, <<"\n">>)

(* every element ends with a comma *)
_repr_hjson_list_pretty(arr, indent) ==
    Join(<< <<"[">> >> \o ListLines(arr, indent \o <<" ", " ">>, 1) \o << indent \o <<"]">> >>,
         <<"\n">>)

_repr_hjson_value_pretty(v, indent) ==
    CASE v.kind = "map" -> _repr_hjson_map_pretty(v.items, indent)
      [] v.kind = "list" -> _repr_hjson_list_pretty(v.items, indent)
      [] OTHER -> _repr_hjson_scalar(v)

head_rx(key_names) ==
    LET key_alt == Alt(Lits(key_names, 1))
    IN  << Cat(<< Alt(<<Cat(<<Lit(<<"\"">>), key_alt, Lit(<<"\"">>)>>), key_alt>>),
                  Star(Ws), Lit(<<":">>), Star(Ws), comment >>) >>

(* re.match(r'[ \t]*', block[line_start:pos]).group(0) *)
BaseIndent(block, pos) ==
    LET line_start == RFind(block, <<"\n">>, pos) + 1
    IN  Slice(block, line_start, ClassStop(Cls({" ", "\t"}), Slice(block, 0, pos), line_start))

(* new_list_obj when no list object is given *)
NoList == [kind |-> "none"]

(* the text that replaces the old value: new_list_str is None when only   *)
(* the list object, a ListV, is given                                      *)
Rendered(new_list_str, new_list_obj, base_indent) ==
    IF new_list_str = None /\ new_list_obj # NoList
    THEN _repr_hjson_list_pretty(new_list_obj.items, base_indent)
    ELSE IF new_list_str # None THEN new_list_str ELSE <<"[", "]">>

(* the replacement of block[start:end], end = -1 when the list never closes *)
ListReplaced(block, start, end, rendered) ==
    IF end = -1 THEN <<block, 0>>
    ELSE <<Slice(block, 0, start) \o rendered \o Slice(block, end, Len(block)), 1>>

(* sk is the state in which the skip loop ended *)
ListPatchFrom(block, key_names, rendered, sk) ==
    IF sk.done /\ sk.end = -1 THEN _patch_scalar_in_block(block, key_names, rendered)
    ELSE IF ~sk.done THEN <<block, 0>>
    ELSE ListReplaced(block, sk.end,
                      Run("list_balance", block, Scan0(sk.end), sk.end, Len(block)).end, rendered)

ListPatchAt(block, key_names, new_list_str, new_list_obj, pos) ==
    ListPatchFrom(block, key_names, Rendered(new_list_str, new_list_obj, BaseIndent(block, pos)),
                  Run("list_skip", block, Scan0(pos), pos, Len(block)))

ListPatchAfter(block, key_names, new_list_str, new_list_obj, mh) ==
    IF mh = NoMatch THEN <<block, 0>>
    ELSE ListPatchAt(block, key_names, new_list_str, new_list_obj, mh[2])

(* <<new_block, n>> *)
_patch_list_in_block(block, key_names, new_list_str, new_list_obj) ==
    ListPatchAfter(block, key_names, new_list_str, new_list_obj,
                   Search(head_rx(key_names), block, 0))

----------------------------------------------------------------------------
(* hjson.loads on one record block, for flat records: the members in      *)
(* order as <<key, value>> pairs; a value is read as a string, quoted      *)
(* strings decoded and bare tokens trimmed.                                *)

RECURSIVE Unescape(_)
Unescape(w) ==
    IF w = <<>> THEN <<>>
    ELSE IF Head(w) = "\\" /\ Len(w) >= 2 THEN <<w[2]>> \o Unescape(SubSeq(w, 3, Len(w)))
    ELSE <<Head(w)>> \o Unescape(Tail(w))

member_rx ==
    << Opt(Lit(<<"\"">>)),
       Plus(NotCls(Space \cup {"\"", "'", ":", ",", "{", "}", "[", "]"})),
       Cat(<<Opt(Lit(<<"\"">>)), Star(Ws), Lit(<<":">>), Star(Ws)>>),
       Alt(<< Cat(<<Lit(<<"\"">>), DqBody, Lit(<<"\"">>)>>),
              Cat(<<Lit(<<"'">>), Star(NotCls({"'"})), Lit(<<"'">>)>>),
              Plus(NotCls({",", "\r", "\n", "}", "]"})) >>) >>

MemberOf(block, m) ==
    LET tok == Slice(block, m[4], m[5])
    IN  << Slice(block, m[2], m[3]),
           StrV(IF Head(tok) = "\"" THEN Unescape(SubSeq(tok, 2, Len(tok) - 1))
                ELSE IF Head(tok) = "'" THEN SubSeq(tok, 2, Len(tok) - 1)
                ELSE Strip(tok)) >>

Members(block, ms) == [k \in 1 .. Len(ms) |-> MemberOf(block, ms[k])]

hjson_loads(block) == Members(block, FindIter(member_rx, block, 1))

(* Python dict as a sequence of <<key, value>> pairs in insertion order. *)
Has(d, k) == \E j \in 1 .. Len(d) : d[j][1] = k

Get(d, k) == d[CHOOSE j \in 1 .. Len(d) : d[j][1] = k][2]

Pop(d, k) == SelectSeq(d, LAMBDA kv : kv[1] # k)

(* s[to] = s.pop(from) *)
Rename(d, from, to) == Append(Pop(Pop(d, from), to), <<to, Get(d, from)>>)

(* d.get(k) as a string, "" when absent: d.get(a) or d.get(b) or "" *)
GetStr(d, k) == IF Has(d, k) THEN Get(d, k).s ELSE <<>>

Or(a, b) == IF a # <<>> THEN a ELSE b

Uppers ==
    <<"A", "B", "C", "D", "E", "F", "G", "H", "I", "J", "K", "L", "M", "N", "O", "P", "Q",
      "R", "S", "T", "U", "V", "W", "X", "Y", "Z">>

Lowers ==
    <<"a", "b", "c", "d", "e", "f", "g", "h", "i", "j", "k", "l", "m", "n", "o", "p", "q",
      "r", "s", "t", "u", "v", "w", "x", "y", "z">>

CaseFold(w) ==
    [j \in 1 .. Len(w) |->
        IF \E u \in 1 .. 26 : Uppers[u] = w[j]
        THEN Lowers[CHOOSE u \in 1 .. 26 : Uppers[u] = w[j]] ELSE w[j]]

----------------------------------------------------------------------------
(* Record mutator *)

kKey == <<"K", "e", "y">>
kkey == <<"k", "e", "y">>
kName == <<"N", "a", "m", "e">>
kname == <<"n", "a", "m", "e">>
kSide == <<"S", "i", "d", "e">>
kside == <<"s", "i", "d", "e">>
kArtfileroot == <<"A", "r", "t", "f", "i", "l", "e", "r", "o", "o", "t">>
kartfileroot == <<"a", "r", "t", "f", "i", "l", "e", "r", "o", "o", "t">>

_deduce_key_style(d) ==
    [key |-> IF Has(d, kKey) THEN kKey ELSE IF Has(d, kkey) THEN kkey ELSE kKey,
     name |-> IF Has(d, kName) THEN kName ELSE kname,
     side |-> IF Has(d, kSide) THEN kSide ELSE kside,
     artfileroot |-> IF Has(d, kArtfileroot) THEN kArtfileroot ELSE kartfileroot]

DefaultKeyStyle == [key |-> kKey, name |-> kname, side |-> kside, artfileroot |-> kartfileroot]

(* item_indent of _ship_list_indentation, from base_indent and the blocks *)
ItemIndent(raw, base_indent, blocks) ==
    IF blocks = <<>> THEN base_indent \o <<" ", " ">>
    ELSE Slice(raw, RFind(raw, <<"\n">>, blocks[1][1]) + 1, blocks[1][1])

Indentation(raw, base_indent, blocks) ==
    [base_indent |-> base_indent, item_indent |-> ItemIndent(raw, base_indent, blocks),
     lb |-> IF Contains(raw, <<"\r", "\n">>) THEN <<"\r", "\n">> ELSE <<"\n">>]

_ship_list_indentation(raw, arr_start, arr_end) ==
    Indentation(raw, Slice(raw, RFind(raw, <<"\n">>, arr_start) + 1, arr_start),
                _iter_top_level_flow_maps(raw, arr_start, arr_end))

Ordering == <<kKey, kkey, kName, kname, kSide, kside, kArtfileroot, kartfileroot>>

_render_ship_block(ship_dict, item_indent) ==
    LET present == SelectSeq(Ordering, LAMBDA k : Has(ship_dict, k))
        first == [j \in 1 .. Len(present) |-> <<present[j], Get(ship_dict, present[j])>>]
        rest == SelectSeq(ship_dict, LAMBDA kv : \A j \in 1 .. Len(Ordering) : Ordering[j] # kv[1])
    IN  _repr_hjson_map_pretty(first \o rest,
            IF Len(item_indent) >= 2 THEN SubSeq(item_indent, 1, Len(item_indent) - 2) ELSE <<>>)

(* if from in s and to == key_style[...]: s[to] = s.pop(from) *)
RenameIf(d, from, to, styled) == IF Has(d, from) /\ styled = to THEN Rename(d, from, to) ELSE d

ApplyKeyStyle(ship, key_style) ==
    RenameIf(RenameIf(RenameIf(RenameIf(RenameIf(RenameIf(RenameIf(RenameIf(ship,
        kKey, kkey, key_style.key),
        kkey, kKey, key_style.key),
        kName, kname, key_style.name),
        kname, kName, key_style.name),
        kSide, kside, key_style.side),
        kside, kSide, key_style.side),
        kArtfileroot, kartfileroot, key_style.artfileroot),
        kartfileroot, kArtfileroot, key_style.artfileroot)

(* (d.get("side") or d.get("Side") or "").casefold() *)
SideOf(d) == CaseFold(Or(GetStr(d, kside), GetStr(d, kSide)))

(* the offset of the last non-space character before pos, not below floor *)
BackOverSpace(text, pos, floor) ==
    LET S == {i \in floor + 1 .. pos : ~IsSpace(At(text, i))}
    IN  IF pos < floor \/ S = {} THEN (IF pos < floor THEN pos ELSE floor) ELSE Greatest(S)

(* the key style of the first block, the default one for an empty array *)
KeyStyleOf(raw, blocks) ==
    IF blocks = <<>> THEN DefaultKeyStyle
    ELSE _deduce_key_style(hjson_loads(Slice(raw, blocks[1][1], blocks[1][2])))

(* the blocks whose side equals new_side: the candidates for last_same_side_end *)
SameSide(raw, blocks, new_side) ==
    {j \in 1 .. Len(blocks) :
        new_side # <<>> /\ SideOf(hjson_loads(Slice(raw, blocks[j][1], blocks[j][2]))) = new_side}

(* the text put at insertion_pos *)
Addition(raw, s, arr_start, ind, clustered, insertion_pos) ==
    (IF clustered \/ At(raw, BackOverSpace(raw, insertion_pos - 1, arr_start)) # "["
     THEN <<",">> \o ind.lb ELSE <<>>)
        \o ind.item_indent \o Strip(_render_ship_block(s, ind.item_indent))
        \o (IF clustered THEN <<",">> ELSE <<>>) \o ind.lb

InsertAt(raw, s, arr_start, ind, clustered, insertion_pos) ==
    [ok |-> TRUE,
     text |-> Slice(raw, 0, insertion_pos)
                \o Addition(raw, s, arr_start, ind, clustered, insertion_pos)
                \o Slice(raw, insertion_pos, Len(raw))]

InsertClustered(raw, s, arr_start, arr_end, ind, blocks, same) ==
    InsertAt(raw, s, arr_start, ind, same # {},
             IF same # {} THEN blocks[Greatest(same)][2] ELSE arr_end - 1)

InsertStyled(raw, s, arr_start, arr_end, ind, blocks) ==
    InsertClustered(raw, s, arr_start, arr_end, ind, blocks, SameSide(raw, blocks, SideOf(s)))

InsertAmong(raw, ship, arr_start, arr_end, ind, blocks) ==
    InsertStyled(raw, ApplyKeyStyle(ship, KeyStyleOf(raw, blocks)), arr_start, arr_end, ind, blocks)

InsertInRegion(raw, ship, region) ==
    IF raw = <<>> \/ region = None THEN [ok |-> FALSE, text |-> raw]
    ELSE InsertAmong(raw, ship, region[1], region[2],
                     _ship_list_indentation(raw, region[1], region[2]),
                     _iter_top_level_flow_maps(raw, region[1], region[2]))

(* [ok |-> FALSE] stands for the RuntimeError. *)
_surgical_insert_ship_block(raw, ship) == InsertInRegion(raw, ship, _extract_ship_list_region(raw))

(* the offset after the spaces from end on and after one comma there *)
AfterComma(raw, j0) == IF j0 < Len(raw) /\ At(raw, j0) = "," THEN j0 + 1 ELSE j0

SkipSpace(raw, sp) == IF sp = {} THEN Len(raw) ELSE Least(sp)

(* i is the last non-space offset before start *)
DeleteAround(raw, arr_start, start, end, i) ==
    IF i >= arr_start /\ At(raw, i) = ","
    THEN [ok |-> TRUE, text |-> Slice(raw, 0, i) \o Slice(raw, end, Len(raw))]
    ELSE [ok |-> TRUE,
          text |-> Slice(raw, 0, start)
                     \o Slice(raw, AfterComma(raw, SkipSpace(raw,
                                   {j \in end .. Len(raw) - 1 : ~IsSpace(At(raw, j))})), Len(raw))]

DeleteSpan(raw, arr_start, start, end) ==
    DeleteAround(raw, arr_start, start, end, BackOverSpace(raw, start - 1, arr_start))

DeleteIn(raw, region, matches) ==
    IF raw = <<>> \/ region = None \/ matches = <<>> THEN [ok |-> FALSE, text |-> raw]
    ELSE DeleteSpan(raw, region[1], matches[1][1], matches[1][2])

(* [ok |-> the returned flag, text |-> _raw_text afterwards] *)
_surgical_delete_ship_by_key(raw, key_value) ==
    DeleteIn(raw, _extract_ship_list_region(raw), _iter_object_spans_for_key(raw, key_value))

(* tmp = dict(ship); tmp.update(updates) *)
RECURSIVE Update(_, _)
Update(d, ups) ==
    IF ups = <<>> THEN d
    ELSE LET kv == Head(ups)
             d1 == IF Has(d, kv[1])
                   THEN [j \in 1 .. Len(d) |-> IF d[j][1] = kv[1] THEN kv ELSE d[j]]
                   ELSE Append(d, kv)
         IN  Update(d1, Tail(ups))

CodeOrder ==
    <<"0", "1", "2", "3", "4", "5", "6", "7", "8", "9">> \o Uppers \o <<"_">> \o Lowers

Ord(ch) == CHOOSE j \in 1 .. Len(CodeOrder) : CodeOrder[j] = ch

StrLess(a, b) ==
    \E j \in 1 .. Len(b) :
        /\ \A h \in 1 .. j - 1 : h <= Len(a) /\ a[h] = b[h]
        /\ (j > Len(a) \/ Ord(a[j]) < Ord(b[j]))
        /\ j - 1 <= Len(a)

(* sorted(updates.keys()), as the pairs in that order *)
Sorted(ups) ==
    LET rank(j) == Cardinality({h \in 1 .. Len(ups) : StrLess(ups[h][1], ups[j][1])})
    IN  [r \in 1 .. Len(ups) |-> ups[CHOOSE j \in 1 .. Len(ups) : rank(j) = r - 1]]

KeyForms(k) ==
    <<k>> \o (IF k = kKey THEN <<kkey>> ELSE <<>>)
          \o (IF k = kname THEN <<kName>> ELSE <<>>)
          \o (IF k = kside THEN <<kSide>> ELSE <<>>)
          \o (IF k = kartfileroot THEN <<kArtfileroot>> ELSE <<>>)

(* "if n > 0: block = new_block" *)
Patched(block, r) == IF r[2] > 0 THEN r[1] ELSE block

ktorpedostart == <<"t", "o", "r", "p", "e", "d", "o", "s", "t", "a", "r", "t">>

(* the patch of one field: a list of scalars goes to the list patcher, as a *)
(* list object for torpedostart and as a compact literal otherwise          *)
PatchValue(block, key_forms, v) ==
    IF v.kind = "list"
    THEN IF key_forms[1] = ktorpedostart
         THEN _patch_list_in_block(block, key_forms, None, v)
         ELSE _patch_list_in_block(block, key_forms, _repr_hjson_list(v.items), NoList)
    ELSE _patch_scalar_in_block(block, key_forms, _repr_hjson_scalar(v))

(* the loop over the sorted updates *)
RECURSIVE ApplyUpdates(_, _, _)
ApplyUpdates(block, ups, j) ==
    IF j > Len(ups) THEN block
    ELSE ApplyUpdates(Patched(block, PatchValue(block, KeyForms(ups[j][1]), ups[j][2])),
                      ups, j + 1)

(* next(iter(...), None) *)
First(matches) == IF matches = <<>> THEN None ELSE matches[1]

FirstSpan(raw, wanted) ==
    First(IF wanted = <<>> THEN <<>> ELSE _iter_object_spans_for_key(raw, wanted))

(* "if not match and name_val: match = ..." *)
OrByName(raw, by_key, name_val) == IF by_key # None THEN by_key ELSE FirstSpan(raw, name_val)

(* the patch of the located block, the splice and the banner *)
PatchAt(raw1, span, updates, banner, inserted) ==
    IF span = None THEN [ok |-> FALSE, text |-> raw1, wrote |-> FALSE, inserted |-> TRUE]
    ELSE [ok |-> TRUE,
          text |-> _upsert_editor_banner_simple(
                      Slice(raw1, 0, span[1])
                        \o ApplyUpdates(Slice(raw1, span[1], span[2]), Sorted(updates), 1)
                        \o Slice(raw1, span[2], Len(raw1)), banner),
          wrote |-> TRUE, inserted |-> inserted]

(* the insert of a record that was not found, then the second lookup *)
AfterInsert(raw, ins, key_val, name_val, updates, banner) ==
    IF ~ins.ok THEN [ok |-> FALSE, text |-> raw, wrote |-> FALSE, inserted |-> FALSE]
    ELSE PatchAt(ins.text, FirstSpan(ins.text, IF key_val # <<>> THEN key_val ELSE name_val),
                 updates, banner, TRUE)

SaveFound(raw, ship, updates, banner, key_val, name_val, found) ==
    IF found # None THEN PatchAt(raw, found, updates, banner, FALSE)
    ELSE AfterInsert(raw, _surgical_insert_ship_block(raw, Update(ship, updates)),
                     key_val, name_val, updates, banner)

SaveBy(raw, ship, updates, banner, key_val, name_val) ==
    SaveFound(raw, ship, updates, banner, key_val, name_val,
              OrByName(raw, FirstSpan(raw, key_val), name_val))

(* [ok |-> FALSE] stands for a RuntimeError; text is _raw_text afterwards, *)
(* wrote tells whether the file was written.                               *)
_surgical_save_current_ship(raw, ship, updates, banner) ==
    IF raw = <<>> THEN [ok |-> FALSE, text |-> raw, wrote |-> FALSE, inserted |-> FALSE]
    ELSE SaveBy(raw, ship, updates, banner,
                Or(GetStr(ship, kKey), GetStr(ship, kkey)), GetStr(ship, kname))

----------------------------------------------------------------------------
(* Documents: a header, the records array and the closing brace, in four  *)
(* layouts.  Record i has key KeyLetters[i], a side and the number n = i. *)

MaxRecs == 3
MaxOps == 2

KeyLetters == <<"a", "b", "c", "d", "e">>
SideLetters == <<"x", "y", "X">>

Rec(i) == [key |-> <<KeyLetters[i]>>, side |-> <<SideLetters[((i - 1) % 3) + 1]>>, n |-> i]

Styles == {"json1", "hjson", "jsonml", "hug"}

kN == <<"n">>

Q(w) == <<"\"">> \o w \o <<"\"">>

(* the object literal of one record *)
Obj(style, r) ==
    CASE style = "json1" ->
            <<"{">> \o Q(kkey) \o <<":">> \o Q(r.key) \o <<",">> \o Q(kside) \o <<":">> \o Q(r.side)
                \o <<",">> \o Q(kN) \o <<":">> \o IntStr(r.n) \o <<"}">>
      [] style \in {"hjson", "hug"} ->
            <<"{", "\n", " ", " ", " ">> \o kkey \o <<":", " ">> \o r.key
                \o <<"\n", " ", " ", " ">> \o kside \o <<":", " ">> \o r.side
                \o <<"\n", " ", " ", " ">> \o kN \o <<":", " ">> \o IntStr(r.n)
                \o <<"\n", " ", " ", "}">>
      [] style = "jsonml" ->
            <<"{", "\r", "\n", " ", " ", " ">> \o Q(kkey) \o <<":", " ">> \o Q(r.key)
                \o <<",", "\r", "\n", " ", " ", " ">> \o Q(kSide) \o <<":", " ">> \o Q(r.side)
                \o <<",", "\r", "\n", " ", " ", " ">> \o Q(kN) \o <<":", " ">> \o IntStr(r.n)
                \o <<"\r", "\n", " ", " ", "}">>

Head_(style) ==
    CASE style = "json1" -> <<"{">> \o ShipListKeys[4] \o <<":", "[">>
      [] style = "hjson" -> <<"{", "\n", " ">> \o ShipListKeys[6] \o <<":", " ", "[", "\n">>
      [] style = "jsonml" -> <<"{", "\r", "\n", " ">> \o ShipListKeys[1] \o <<":", " ", "[", "\r", "\n">>
      [] style = "hug" -> <<"{", "\n", " ">> \o ShipListKeys[6] \o <<":", " ", "[", " ">>

(* the text before the brace of each record, the separator, the ending *)
Lead(style) == IF style \in {"hjson", "jsonml"} THEN <<" ", " ">> ELSE <<>>

Sep(style) ==
    CASE style = "json1" -> <<",">>
      [] style = "hjson" -> <<",", "\n">>
      [] style = "jsonml" -> <<",", "\r", "\n">>
      [] style = "hug" -> <<",", " ">>

Tail_(style, k) ==
    CASE style = "json1" -> <<"]", "}">>
      [] style = "hjson" -> (IF k > 0 THEN <<"\n">> ELSE <<>>) \o <<" ", "]", "\n", "}", "\n">>
      [] style = "jsonml" ->
            (IF k > 0 THEN <<"\r", "\n">> ELSE <<>>) \o <<" ", "]", "\r", "\n", "}", "\r", "\n">>
      [] style = "hug" -> <<" ", "]", "\n", "}", "\n">>

RECURSIVE Items(_, _, _)
Items(style, rs, j) ==
    IF j > Len(rs) THEN <<>>
    ELSE Lead(style) \o Obj(style, rs[j]) \o (IF j < Len(rs) THEN Sep(style) ELSE <<>>)
            \o Items(style, rs, j + 1)

DocOf(style, rs) == Head_(style) \o Items(style, rs, 1) \o Tail_(style, Len(rs))

Recs(k) == [j \in 1 .. k |-> Rec(j)]

MakeDoc(style, k) == DocOf(style, Recs(k))

(* the span of record j in DocOf(style, rs) *)
ObjStart(style, rs, j) ==
    Len(Head_(style) \o Items(style, SubSeq(rs, 1, j - 1), 1))
        + (IF j > 1 THEN Len(Sep(style)) ELSE 0) + Len(Lead(style))

ObjSpan(style, rs, j) == <<ObjStart(style, rs, j), ObjStart(style, rs, j) + Len(Obj(style, rs[j]))>>

Docs == {MakeDoc(style, k) : style \in Styles, k \in 0 .. MaxRecs}

(* The banner value carries the time of the call: the text for the clock *)
(* reading now.  The session's clock advances by one with each operation. *)
_format_editor_banner_value(now) == <<"T">> \o NatStr(now)

Banners == {_format_editor_banner_value(0), _format_editor_banner_value(1)}

(* the records the forms hold: those of the document and two new ones *)
ShipOf(r) == <<<<kkey, StrV(r.key)>>, <<kside, StrV(r.side)>>, <<kN, NumV(r.n)>>>>

NewShips ==
    { <<<<kkey, StrV(<<"z">>)>>, <<kside, StrV(<<"x">>)>>>>,
      <<<<kkey, StrV(<<"w">>)>>, <<kside, StrV(<<"q">>)>>>> }

Ships == {ShipOf(Rec(j)) : j \in 1 .. MaxRecs} \cup NewShips

(* the discriminant save_changes looks up: ship.get("Key") or ship.get("key") *)
KeyVal(ship) == Or(GetStr(ship, kKey), GetStr(ship, kkey))

UpdateSets == { <<<<kN, NumV(5)>>>>, <<<<kside, StrV(<<"y">>)>>, <<kN, NumV(5)>>>> }

----------------------------------------------------------------------------
(* The editor session in surgical mode *)

Init ==
    /\ raw_text \in Docs
    /\ file_text = raw_text
    /\ pre_text = raw_text
    /\ last = [op |-> "load"]
    /\ nops = 0

(* what a save leaves: r is the outcome of _surgical_save_current_ship *)
Saved(r, ship, updates, banner) ==
    /\ raw_text' = r.text
    /\ file_text' = IF r.wrote THEN r.text ELSE file_text
    /\ last' = [op |-> "save", key |-> Or(GetStr(ship, kKey), GetStr(ship, kkey)), ups |-> updates,
                banner |-> banner, ok |-> r.ok, inserted |-> r.inserted]

(* save_changes, surgical branch *)
SaveShip(ship, updates, banner) ==
    /\ nops < MaxOps
    /\ Saved(_surgical_save_current_ship(raw_text, ship, updates, banner), ship, updates, banner)
    /\ pre_text' = raw_text
    /\ nops' = nops + 1

(* what a delete leaves: the banner is stamped and the file written only *)
(* when the record was removed                                            *)
Deleted(r, ident, banner) ==
    /\ raw_text' = IF r.ok THEN _upsert_editor_banner_simple(r.text, banner) ELSE raw_text
    /\ file_text' = IF r.ok THEN raw_text' ELSE file_text
    /\ last' = [op |-> "delete", key |-> ident, ups |-> <<>>,
                banner |-> banner, ok |-> r.ok, inserted |-> FALSE]

DeleteIdent(ident, banner) == Deleted(_surgical_delete_ship_by_key(raw_text, ident), ident, banner)

(* delete_ship, surgical branch; ship['key'] raises KeyError for a record *)
(* without that key and the handler then leaves the text alone            *)
DeleteShip(ship, banner) ==
    /\ nops < MaxOps
    /\ IF Has(ship, kkey)
       THEN DeleteIdent(Or(Or(GetStr(ship, kKey), GetStr(ship, kkey)), GetStr(ship, kname)), banner)
       ELSE /\ UNCHANGED <<raw_text, file_text>>
            /\ last' = [op |-> "delete", key |-> <<>>, ups |-> <<>>,
                        banner |-> banner, ok |-> FALSE, inserted |-> FALSE]
    /\ pre_text' = raw_text
    /\ nops' = nops + 1

Next ==
    \/ \E ship \in Ships, updates \in UpdateSets :
            SaveShip(ship, updates, _format_editor_banner_value(nops))
    \/ \E ship \in Ships : DeleteShip(ship, _format_editor_banner_value(nops))

Spec == Init /\ [][Next]_vars

----------------------------------------------------------------------------
(* Claims about the session *)

OnlyN5 == <<<<kN, NumV(5)>>>>

(* C1: a successful save that sets n to 5 on the record with key d of a   *)
(* document of two or more records leaves the document with only that     *)
(* record's n token changed, the banner line apart.                        *)
C1_SaveChangesOnlyThatRecord ==
    \A style \in Styles, k \in 2 .. MaxRecs, j \in 1 .. MaxRecs :
        (/\ j <= k
         /\ last.op = "save"
         /\ last.ups = OnlyN5
         /\ last.key = Rec(j).key
         /\ pre_text = MakeDoc(style, k))
        => /\ last.ok
           /\ raw_text = _upsert_editor_banner_simple(
                             DocOf(style, [Recs(k) EXCEPT ![j].n = 5]), last.banner)

(* the offsets at which a banner key starts *)
BannerStarts(text) == {i \in 0 .. Len(text) - 1 : StartsWith(text, <<"\"">> \o BannerKey, i)}

(* C4: once an operation has stamped the banner, a document with an       *)
(* opening brace holds exactly one banner line.                            *)
C4_ExactlyOneBanner ==
    (last.op \in {"save", "delete"} /\ last.ok /\ Contains(raw_text, <<"{">>))
        => Cardinality(BannerStarts(raw_text)) = 1

BlocksIn(text, region) ==
    IF region = None THEN <<>> ELSE _iter_top_level_flow_maps(text, region[1], region[2])

(* the texts of the top-level records of the array of text *)
RecordTexts(text, blocks) == {Slice(text, blocks[b][1], blocks[b][2]) : b \in 1 .. Len(blocks)}

(* C12: after a save or a delete that failed the held document is what it *)
(* was before the operation.                                               *)
C12_FailureLeavesDocument ==
    (last.op \in {"save", "delete"} /\ ~last.ok) => raw_text = pre_text

(* the top-level records of the array of the held document *)
HeldRecords == RecordTexts(raw_text, BlocksIn(raw_text, _extract_ship_list_region(raw_text)))

(* C13: on a generated document of k records that holds no record with the *)
(* key of the ship, a save succeeds, leaves k + 1 records, the k old ones  *)
(* as they were and a new one with that key and the new value of n, while  *)
(* a delete fails and leaves the document as it was.                       *)
C13_MissingDiscriminant ==
    \A style \in Styles, k \in 0 .. MaxRecs, s \in NewShips :
        (pre_text = MakeDoc(style, k) /\ last.op \in {"save", "delete"}
            /\ last.key = GetStr(s, kkey))
        => IF last.op = "delete" THEN ~last.ok /\ raw_text = pre_text
           ELSE /\ last.ok
                /\ last.inserted
                /\ Cardinality(HeldRecords) = k + 1
                /\ \A i \in 1 .. k : Obj(style, Rec(i)) \in HeldRecords
                /\ \E t \in HeldRecords :
                        /\ \/ Contains(t, Q(kkey) \o <<":", " ">> \o Q(last.key))
                           \/ Contains(t, Q(kKey) \o <<":", " ">> \o Q(last.key))
                        /\ Contains(t, Q(kN) \o <<":", " ", "5">>)

----------------------------------------------------------------------------
(* The locators as functions of a document *)

(* a single-line document whose first record holds a string that ends in  *)
(* an escaped backslash and whose second holds a brace inside a string     *)
EscapedDoc ==
    Head_("json1")
        \o <<"{">> \o Q(kkey) \o <<":">> \o Q(<<"a">>) \o <<",">> \o Q(<<"p">>) \o <<":">>
        \o <<"\"", "\\", "\\", "\"">> \o <<"}", ",">>
        \o <<"{">> \o Q(kkey) \o <<":">> \o Q(<<"b">>) \o <<",">> \o Q(<<"q">>) \o <<":">>
        \o <<"\"", "}", "\"">> \o <<"}">>
        \o Tail_("json1", 2)

(* documents given as the text before the records array, the array from  *)
(* its opening to its closing bracket, and the text after it: comments    *)
(* that hold brackets and quotes, strings that hold comment markers and    *)
(* brackets, strings that hold an escaped quote before a bracket           *)
RegionCases ==
    { [name |-> "comments",
       pre |-> <<"{", "\"", "s", "h", "i", "p", "-", "l", "i", "s", "t", "\"", ":", " ",
                 "/", "*", " ", "[", " ", "\"", " ", "*", "/", " ">>,
       arr |-> <<"[", " ", "/", "/", " ", "]", " ", "'", "\n", " ", "{", "\"", "k", "e",
                 "y", "\"", ":", "\"", "a", "\"", ",", "\"", "p", "\"", ":", "\"", "/",
                 "/", "]", "\"", "}", ",", " ", "#", " ", "]", "\n", " ", "{", "\"", "k",
                 "e", "y", "\"", ":", "\"", "b", "\"", ",", "\"", "p", "\"", ":", "\"",
                 "/", "*", "[", "\"", "}", " ", "]">>,
       post |-> <<" ", "}">>],
      [name |-> "hash",
       pre |-> <<"{", "s", "h", "i", "p", "-", "l", "i", "s", "t", ":", " ", "#", " ", "c",
                 " ", "[", "\n", " ">>,
       arr |-> <<"[", " ", "{", "k", "e", "y", ":", " ", "a", ",", " ", "p", ":", " ",
                 "\"", "#", "]", "\"", "}", " ", "]">>,
       post |-> <<" ", "}">>],
      [name |-> "escaped_close",
       pre |-> <<"{", "\"", "s", "h", "i", "p", "-", "l", "i", "s", "t", "\"", ":">>,
       arr |-> <<"[", "{", "\"", "k", "e", "y", "\"", ":", "\"", "a", "\"", ",", "\"", "p",
                 "\"", ":", "\"", "\\", "\"", "]", "\"", "}", "]">>,
       post |-> <<"}">>],
      [name |-> "escaped_open",
       pre |-> <<"{", "\"", "s", "h", "i", "p", "-", "l", "i", "s", "t", "\"", ":">>,
       arr |-> <<"[", "{", "\"", "k", "e", "y", "\"", ":", "\"", "a", "\"", ",", "\"", "p",
                 "\"", ":", "\"", "\\", "\"", "[", "\"", "}", "]">>,
       post |-> <<"}">>] }

CaseText(c) == c.pre \o c.arr \o c.post

(* no records-array key, a scalar value, a map value, no colon *)
NoArrayDocs ==
    { <<"{", "\"", "x", "\"", ":", "[", "]", "}">>,
      <<"{", "\"", "s", "h", "i", "p", "-", "l", "i", "s", "t", "\"", ":", "n", "u", "l",
          "l", "}">>,
      <<"{", "\"", "s", "h", "i", "p", "-", "l", "i", "s", "t", "\"", ":", " ", "{",
          "\"", "a", "\"", ":", "[", "]", "}", "}">>,
      <<"{", "\"", "s", "h", "i", "p", "-", "l", "i", "s", "t", "\"", "}">> }

(* documents whose array never closes *)
UnterminatedDocs ==
    { <<"{", "\"", "s", "h", "i", "p", "-", "l", "i", "s", "t", "\"", ":", "[", "{",
          "\"", "k", "e", "y", "\"", ":", "\"", "a", "\"", ",", "\"", "s", "i", "d", "e",
          "\"", ":", "\"", "x", "\"", ",", "\"", "n", "\"", ":", "1", "}">>,
      <<"{", "\n", " ", "s", "h", "i", "p", "-", "l", "i", "s", "t", ":", " ", "[", "\n",
          " ", " ", "{", "\n", " ", " ", " ", "k", "e", "y", ":", " ", "a", "\n", " ", " ",
          "}", "\n", "}", "\n">> }

(* documents in which several spellings of the records-array key occur:  *)
(* in a string value after the key, in a comment before it, in a string  *)
(* value spelled as a later spelling                                       *)
SpellingDocs ==
    { <<"{", "'", "s", "h", "i", "p", "-", "l", "i", "s", "t", "'", ":", " ", "[", " ",
        "]", " ", ",", " ", "\"", "x", "\"", ":", " ", "\"", "s", "h", "i", "p", "-",
        "l", "i", "s", "t", "\"", "}">>,
      <<"{", " ", "/", "/", " ", "\"", "s", "h", "i", "p", "-", "l", "i", "s", "t",
        "\"", " ", "/", "*", " ", "c", " ", "*", "/", "\n", " ", "s", "h", "i", "p",
        "-", "l", "i", "s", "t", ":", " ", "[", " ", "]", " ", "}">>,
      <<"{", "\"", "s", "h", "i", "p", "-", "l", "i", "s", "t", "\"", ":", " ", "[",
        " ", "]", " ", ",", " ", "x", ":", " ", "'", "s", "h", "i", "p", "-", "l", "i",
        "s", "t", "'", "}">> }

LocDocs ==
    Docs \cup {EscapedDoc} \cup {CaseText(c) : c \in RegionCases} \cup NoArrayDocs
         \cup UnterminatedDocs \cup SpellingDocs

Wanteds == {Rec(j).key : j \in 1 .. MaxRecs} \cup {<<"z">>}

InitLocator ==
    /\ raw_text \in LocDocs
    /\ file_text = raw_text
    /\ pre_text = raw_text
    /\ last = [op |-> "load"]
    /\ nops = 0

(* list(self._iter_object_spans_for_key(raw, wanted)) *)
Locate(wanted) ==
    /\ nops < MaxOps
    /\ last' = [op |-> "locate", wanted |-> wanted,
                spans |-> _iter_object_spans_for_key(raw_text, wanted)]
    /\ nops' = nops + 1
    /\ UNCHANGED <<raw_text, file_text, pre_text>>

(* list(self._iter_top_level_flow_maps(raw, arr_start, arr_end)), twice *)
Iterated(region) ==
    [op |-> "iter", region |-> region,
     spans |-> IF region = None THEN <<>>
               ELSE _iter_top_level_flow_maps(raw_text, region[1], region[2]),
     again |-> IF region = None THEN <<>>
               ELSE _iter_top_level_flow_maps(raw_text, region[1], region[2])]

IterTop ==
    /\ nops < MaxOps
    /\ last' = Iterated(_extract_ship_list_region(raw_text))
    /\ nops' = nops + 1
    /\ UNCHANGED <<raw_text, file_text, pre_text>>

(* the sniffer and the region locator on the same text *)
Sniff ==
    /\ nops < MaxOps
    /\ last' = [op |-> "sniff", looks |-> _looks_hjsonish(raw_text),
                region |-> _extract_ship_list_region(raw_text)]
    /\ nops' = nops + 1
    /\ UNCHANGED <<raw_text, file_text, pre_text>>

NextLocator ==
    \/ \E wanted \in Wanteds : Locate(wanted)
    \/ IterTop
    \/ Sniff

SpecLocator == InitLocator /\ [][NextLocator]_vars

(* C2: in a generated document the first span found for a wanted key is   *)
(* the span of the record that holds it, and nothing is found for a key no *)
(* record holds.                                                           *)
C2_FirstSpanIsTheRecord ==
    \A style \in Styles, k \in 0 .. MaxRecs :
        (last.op = "locate" /\ raw_text = MakeDoc(style, k))
        => IF \E j \in 1 .. k : Rec(j).key = last.wanted
           THEN /\ last.spans # <<>>
                /\ last.spans[1]
                     = ObjSpan(style, Recs(k), CHOOSE j \in 1 .. k : Rec(j).key = last.wanted)
           ELSE last.spans = <<>>

(* C9: the spans yielded for the array region lie inside it, rise without *)
(* overlap, each from a brace to just past the brace that closes it, and a *)
(* second call yields the same.                                            *)
C9_TopLevelSpansAreRecords ==
    (last.op = "iter" /\ last.region # None)
    => /\ last.again = last.spans
       /\ \A i \in 1 .. Len(last.spans) :
            /\ last.region[1] <= last.spans[i][1]
            /\ last.spans[i][1] < last.spans[i][2]
            /\ last.spans[i][2] <= last.region[2]
            /\ At(raw_text, last.spans[i][1]) = "{"
            /\ BalanceFrom(raw_text, last.spans[i][1]) = last.spans[i][2]
            /\ (i > 1 => last.spans[i - 1][2] <= last.spans[i][1])

(* C11: for a document whose array never closes, the outcome of the region *)
(* search differs from the outcome for a document without the key or with  *)
(* a value that is no array, and the document is left as it was.           *)
C11_UnterminatedIsToldApart ==
    (last.op = "iter" /\ raw_text \in UnterminatedDocs)
    => /\ \A d \in NoArrayDocs : last.region # _extract_ship_list_region(d)
       /\ raw_text = pre_text

(* the number of characters ch in text *)
Count(text, ch) == Cardinality({i \in 1 .. Len(text) : text[i] = ch})

(* as many closing as opening brackets and braces, every one counted *)
Balanced(text) ==
    /\ Count(text, "[") = Count(text, "]")
    /\ Count(text, "{") = Count(text, "}")

(* C28: on a text whose brackets are balanced the sniffer says bracketed  *)
(* exactly when the region locator finds the records array.               *)
C28_SnifferAgreesWithLocator ==
    (last.op = "sniff" /\ Balanced(raw_text)) => (last.looks <=> last.region # None)

(* C16: when a string of the array holds an escaped quote and then a       *)
(* bracket, the region ends just past the bracket that closes the array.   *)
C16_EscapedQuoteStaysInString ==
    \A c \in RegionCases :
        (last.op = "iter" /\ raw_text = CaseText(c)
            /\ c.name \in {"escaped_close", "escaped_open"})
        => last.region = <<Len(c.pre), Len(c.pre) + Len(c.arr)>>

(* C17: the region runs from the opening bracket of the array to just past *)
(* the bracket that closes it, whatever comments and strings hold, and     *)
(* there is none without the key or when the value is no array.            *)
C17_RegionIsTheArray ==
    last.op = "iter"
    => /\ \A c \in RegionCases :
            raw_text = CaseText(c) => last.region = <<Len(c.pre), Len(c.pre) + Len(c.arr)>>
       /\ raw_text \in NoArrayDocs => last.region = None

----------------------------------------------------------------------------
(* The field patcher as a function of a record block *)

kV == <<"v">>

(* the value forms of field v: the token in the text and the value the    *)
(* record holds for it                                                     *)
EscTok ==
    <<"\"", "5", "0", "%", " ", "c", "h", "a", "r", "g", "e", ",", " ",
      "\\", "\"", "a", "p", "p", "r", "o", "x", "\\", "\"", "\"">>

EscVal ==
    <<"5", "0", "%", " ", "c", "h", "a", "r", "g", "e", ",", " ",
      "\"", "a", "p", "p", "r", "o", "x", "\"">>

Forms ==
    { [name |-> "dq", tok |-> <<"\"", "a", "b", "\"">>, val |-> StrV(<<"a", "b">>)],
      [name |-> "esc", tok |-> EscTok, val |-> StrV(EscVal)],
      [name |-> "sq", tok |-> <<"'", "a", "b", "'">>, val |-> StrV(<<"a", "b">>)],
      [name |-> "num", tok |-> <<"1", "2">>, val |-> NumV(12)],
      [name |-> "bool", tok |-> <<"t", "r", "u", "e">>, val |-> BoolV(TRUE)],
      [name |-> "word", tok |-> <<"a", "b">>, val |-> StrV(<<"a", "b">>)] }

(* what follows the token on its line: nothing, spaces, a comment *)
Trails == { <<>>, <<" ", " ">>, <<" ", "/", "/", " ", "c">> }

Layouts == {"ml", "sl"}

BPre(layout) ==
    IF layout = "ml"
    THEN <<"{", "\n", " ", " ">> \o kkey \o <<":", " ", "a", "\n", " ", " ">> \o kV \o <<":", " ">>
    ELSE <<"{">> \o Q(kkey) \o <<":">> \o Q(<<"a">>) \o <<",">> \o Q(kV) \o <<":">>

BPost(layout) ==
    IF layout = "ml"
    THEN <<"\n", " ", " ">> \o kN \o <<":", " ", "1", "\n", "}">>
    ELSE <<",">> \o Q(kN) \o <<":", "1", "}">>

(* BPost with the token n_tok as the value of n *)
BPostWith(layout, n_tok) ==
    IF layout = "ml"
    THEN <<"\n", " ", " ">> \o kN \o <<":", " ">> \o n_tok \o <<"\n", "}">>
    ELSE <<",">> \o Q(kN) \o <<":">> \o n_tok \o <<"}">>

BlockOf(layout, form, trail) == BPre(layout) \o form.tok \o trail \o BPost(layout)

(* a single-line block has no comment and no unquoted word *)
WellFormedBlock(layout, form, trail) ==
    layout = "sl" => (form.name # "word" /\ trail # <<" ", "/", "/", " ", "c">>)

Blocks ==
    {BlockOf(layout, form, trail) :
        <<layout, form, trail>> \in
            {x \in Layouts \X Forms \X Trails : WellFormedBlock(x[1], x[2], x[3])}}

(* record blocks given as the text before the value of field v, the value *)
(* token and the text after it.  kind "scalar": a scalar value next to a   *)
(* longer key that ends in v, to a string that holds "v:", to a second     *)
(* field v, to comments and spaces; "list": a list value with brackets in  *)
(* strings and comments; "open": a list that never closes; "absent": no    *)
(* field v.                                                                *)
FieldCases ==
    { [name |-> "longer_key", kind |-> "scalar",
       pre |-> <<"{", "\n", " ", " ", "x", "v", ":", " ", "0", "\n", " ", " ", "v", ":",
                 " ">>,
       tok |-> <<"1">>,
       post |-> <<"\n", "}">>],
      [name |-> "in_string", kind |-> "scalar",
       pre |-> <<"{", "\"", "p", "\"", ":", "\"", "v", ":", "1", "\"", ",", "\"", "v",
                 "\"", ":">>,
       tok |-> <<"2">>,
       post |-> <<"}">>],
      [name |-> "twice", kind |-> "scalar",
       pre |-> <<"{", "\"", "v", "\"", ":">>,
       tok |-> <<"1">>,
       post |-> <<",", "\"", "v", "\"", ":", "2", "}">>],
      [name |-> "spaced", kind |-> "scalar",
       pre |-> <<"{", " ", "v", " ", ":", " ", "/", "*", " ", "c", " ", "*", "/", " ">>,
       tok |-> <<"1">>,
       post |-> <<" ", ",", " ", "/", "/", " ", "d", "\n", " ", "n", ":", " ", "3", "}">>],
      [name |-> "nested", kind |-> "list",
       pre |-> <<"{", "\"", "k", "e", "y", "\"", ":", "\"", "a", "\"", ",", "\"", "v",
                 "\"", ":">>,
       tok |-> <<"[", "1", ",", "\"", "]", "\"", ",", "[", "2", "]", " ", "/", "*", " ",
                 "]", " ", "*", "/", "]">>,
       post |-> <<",", "\"", "n", "\"", ":", "1", "}">>],
      [name |-> "multiline", kind |-> "list",
       pre |-> <<"{", "\n", " ", "k", "e", "y", ":", " ", "a", "\n", " ", "v", ":", " ",
                 "/", "/", " ", "c", " ", "[", "\n", " ", " ">>,
       tok |-> <<"[", "\n", " ", " ", " ", "1", " ", "#", " ", "]", "\n", " ", " ", "]">>,
       post |-> <<" ", "/", "/", " ", "t", "\n", " ", "n", ":", " ", "1", "\n", "}">>],
      [name |-> "open", kind |-> "open",
       pre |-> <<"{", "\"", "k", "e", "y", "\"", ":", "\"", "a", "\"", ",", "\"", "v",
                 "\"", ":">>,
       tok |-> <<"[", "1", ",", "2">>,
       post |-> <<>>],
      [name |-> "absent", kind |-> "absent",
       pre |-> <<"{", "\"", "k", "e", "y", "\"", ":", "\"", "a", "\"", ",", "\"", "n",
                 "\"", ":", "1", "}">>,
       tok |-> <<>>,
       post |-> <<>>],
      [name |-> "absent_longer_key", kind |-> "absent",
       pre |-> <<"{", "\n", " ", "k", "e", "y", ":", " ", "a", "\n", " ", "x", "v", ":",
                 " ">>,
       tok |-> <<"[", "1", "]">>,
       post |-> <<"\n", " ", "n", ":", " ", "1", "\n", "}">>] }

CaseBlock(c) == c.pre \o c.tok \o c.post

NewValues == {NumV(5), StrV(<<"x">>)}

(* the updates of a save: a field no block holds or whose name ends a      *)
(* longer key of the block, as a scalar or as a list, and the field n      *)
FieldUpdates ==
    { << <<<<"m">>, NumV(7)>>, <<kN, NumV(5)>> >>,
      << <<<<"e", "y">>, NumV(7)>>, <<kN, NumV(5)>> >>,
      << <<<<"m">>, ListV(<<NumV(7)>>)>>, <<kN, NumV(5)>> >> }

NewLists == {ListV(<<NumV(9)>>), ListV(<<NumV(9), StrV(<<"b">>)>>)}

(* the fields with two spellings, as key_forms lists them *)
AliasPairs == { <<kKey, kkey>>, <<kname, kName>>, <<kside, kSide>>, <<kartfileroot, kArtfileroot>> }

(* a record that holds the field under the spelling key, with value val *)
AliasBlock(key, val) ==
    <<"{", "\n", " ">> \o Q(key) \o <<":", " ">> \o Q(val) \o <<",", "\n", " ">>
        \o Q(kN) \o <<":", " ", "1", "\n", "}">>

AliasBlocks == {AliasBlock(p[d], <<"a">>) : p \in AliasPairs, d \in 1 .. 2}

(* the update of one such field to "b", named in one spelling *)
AliasUpdates == {<< <<p[u], StrV(<<"b">>)>> >> : p \in AliasPairs, u \in 1 .. 2}

InitPatcher ==
    /\ raw_text \in Blocks \cup {CaseBlock(c) : c \in FieldCases} \cup AliasBlocks
    /\ file_text = raw_text
    /\ pre_text = raw_text
    /\ last = [op |-> "load"]
    /\ nops = 0

Result(op, value_str, r) == [op |-> op, value_str |-> value_str, block |-> r[1], n |-> r[2]]

PatchWith(op, value_str) ==
    /\ nops < MaxOps
    /\ last' = Result(op, value_str, _patch_scalar_in_block(raw_text, <<kV>>, value_str))
    /\ nops' = nops + 1
    /\ UNCHANGED <<raw_text, file_text, pre_text>>

(* the patch of field v to a new value *)
PatchTo(value) == PatchWith("patch", _repr_hjson_scalar(value))

(* the patch of field v to the value the record holds for it *)
PatchSame(layout, form, trail) ==
    /\ raw_text = BlockOf(layout, form, trail)
    /\ PatchWith("patch_same", _repr_hjson_scalar(form.val))

(* the loop over the updates of a save, on the block of the record *)
PatchFields(updates) ==
    /\ nops < MaxOps
    /\ last' = [op |-> "patch_fields", ups |-> updates,
                block |-> ApplyUpdates(raw_text, Sorted(updates), 1)]
    /\ nops' = nops + 1
    /\ UNCHANGED <<raw_text, file_text, pre_text>>

(* the patch of field v to a list, given as its compact literal *)
PatchList(v) ==
    /\ nops < MaxOps
    /\ last' = Result("patch_list", _repr_hjson_list(v.items),
                      _patch_list_in_block(raw_text, <<kV>>, _repr_hjson_list(v.items), NoList))
    /\ nops' = nops + 1
    /\ UNCHANGED <<raw_text, file_text, pre_text>>

(* the same loop for the update of a field with two spellings *)
PatchAlias(updates) ==
    /\ nops < MaxOps
    /\ raw_text \in AliasBlocks
    /\ last' = [op |-> "patch_alias", ups |-> updates,
                block |-> ApplyUpdates(raw_text, Sorted(updates), 1)]
    /\ nops' = nops + 1
    /\ UNCHANGED <<raw_text, file_text, pre_text>>

(* new values for the fields v and n, some of them strings that read as  *)
(* the other field with a value                                            *)
PairUpdates ==
    { << <<kV, a>>, <<kN, b>> >> :
        a \in {NumV(5), StrV(<<"x">>), StrV(<<"n", ":", " ", "9">>)},
        b \in {NumV(7), StrV(<<"v", ":", " ", "3">>)} }

(* the patches of two fields of one block, in the one order and the other *)
PatchPair(updates) ==
    /\ nops < MaxOps
    /\ raw_text \in Blocks
    /\ last' = [op |-> "patch_pair", ups |-> updates,
                block |-> ApplyUpdates(raw_text, updates, 1),
                swapped |-> ApplyUpdates(raw_text, <<updates[2], updates[1]>>, 1)]
    /\ nops' = nops + 1
    /\ UNCHANGED <<raw_text, file_text, pre_text>>

NextPatcher ==
    \/ \E value \in NewValues : PatchTo(value)
    \/ \E layout \in Layouts, form \in Forms, trail \in Trails : PatchSame(layout, form, trail)
    \/ \E updates \in FieldUpdates : PatchFields(updates)
    \/ \E v \in NewLists : PatchList(v)
    \/ \E updates \in AliasUpdates : PatchAlias(updates)
    \/ \E updates \in PairUpdates : PatchPair(updates)

SpecPatcher == InitPatcher /\ [][NextPatcher]_vars

EndsWith(text, w) == Len(text) >= Len(w) /\ Slice(text, Len(text) - Len(w), Len(text)) = w

(* C30: the patches of two fields of a block give the same block in      *)
(* either order, whatever the two new values.                              *)
C30_FieldPatchesCommute == last.op = "patch_pair" => last.block = last.swapped

(* C3: the patch of a field to the value it holds gives the same block *)
C3_PatchSameIsIdentity == last.op = "patch_same" => last.block = raw_text

(* C10: the patch of a double-quoted value that holds an escaped quote    *)
(* and a comma replaces the token from its opening to its closing quote    *)
(* and leaves the text before and after it alone.                          *)
C10_EscapedTokenReplacedWhole ==
    \A layout \in Layouts, trail \in Trails :
        (last.op = "patch"
            /\ raw_text = BlockOf(layout, CHOOSE f \in Forms : f.name = "esc", trail))
        => /\ last.n = 1
           /\ last.block = BPre(layout) \o last.value_str \o trail \o BPost(layout)

(* C14: a save with a field that the block does not hold and the field n  *)
(* leaves the block as it was but for the value of n, which is the new one. *)
C14_AbsentFieldIsSkipped ==
    \A layout \in Layouts, form \in Forms, trail \in Trails :
        (last.op = "patch_fields" /\ raw_text = BlockOf(layout, form, trail))
        => last.block = BPre(layout) \o form.tok \o trail \o BPostWith(layout, <<"5">>)

(* C22: for each field with two spellings, an update that names it in one *)
(* spelling gives the field its new value whichever spelling the record   *)
(* uses, and the record keeps its spelling of the key.                     *)
C22_EitherSpellingIsPatched ==
    \A p \in AliasPairs : \A d \in 1 .. 2, u \in 1 .. 2 :
        (last.op = "patch_alias" /\ raw_text = AliasBlock(p[d], <<"a">>)
            /\ last.ups = << <<p[u], StrV(<<"b">>)>> >>)
        => last.block = AliasBlock(p[d], <<"b">>)

(* C19: a patch of field v replaces the value token of the first field v  *)
(* and nothing else: the text before the token and the text after it stay. *)
C19_OnlyTheValueTokenChanges ==
    last.op = "patch"
    => /\ \A layout \in Layouts, form \in Forms, trail \in Trails :
            raw_text = BlockOf(layout, form, trail)
            => /\ last.n = 1
               /\ last.block = BPre(layout) \o last.value_str \o trail \o BPost(layout)
       /\ \A c \in FieldCases :
            (c.kind = "scalar" /\ raw_text = CaseBlock(c))
            => /\ last.n = 1
               /\ last.block = c.pre \o last.value_str \o c.post

(* C20: a list patch of field v replaces the list from its opening to its *)
(* closing bracket and counts 1; a scalar value is replaced by the list    *)
(* literal; without field v or with a list that never closes the block is  *)
(* returned as it was with count 0.                                        *)
C20_ListPatch ==
    last.op = "patch_list"
    => /\ \A c \in FieldCases :
            raw_text = CaseBlock(c)
            => CASE c.kind = "list" ->
                        last.n = 1 /\ last.block = c.pre \o last.value_str \o c.post
                 [] c.kind \in {"open", "absent"} -> last.n = 0 /\ last.block = raw_text
                 [] OTHER -> last.n = 1
       /\ \A layout \in Layouts, form \in Forms, trail \in Trails :
            raw_text = BlockOf(layout, form, trail)
            => /\ last.n = 1
               /\ StartsWith(last.block, BPre(layout) \o last.value_str, 0)
               /\ EndsWith(last.block, BPost(layout))

(* a patch to 5 of the escaped token that a comment follows *)
C10_Witness ==
    /\ last.op = "patch"
    /\ last.value_str = <<"5">>
    /\ raw_text = BPre("ml") \o EscTok \o <<" ", "/", "/", " ", "c">> \o BPost("ml")
    /\ last.n = 1
    /\ ~Contains(last.block, <<"a", "p", "p", "r", "o", "x">>)

----------------------------------------------------------------------------
(* The banner stamp as a function of a document *)

(* a document that holds a banner line already, with the line break lb    *)
(* and the text gap between the banner line and the next line              *)
BannerDoc(lb, gap) ==
    <<"{">> \o lb \o <<" ", " ">> \o BannerLine(<<"o">>) \o lb \o gap
        \o <<" ">> \o ShipListKeys[6] \o <<":", " ", "[", "]">> \o lb \o <<"}">> \o lb

BannerDocs ==
    Docs \cup {_upsert_editor_banner_simple(d, _format_editor_banner_value(0)) : d \in Docs}
         \cup {BannerDoc(<<"\n">>, <<>>), BannerDoc(<<"\n">>, <<"\n">>),
                BannerDoc(<<"\r", "\n">>, <<>>), BannerDoc(<<"\r", "\n">>, <<"\r", "\n">>),
                BannerDoc(<<"\n">>, <<" ", "/", "/", " ", "c", "\n">>), <<"n", "o">>}

InitBanner ==
    /\ raw_text \in BannerDocs
    /\ file_text = raw_text
    /\ pre_text = raw_text
    /\ last = [op |-> "load"]
    /\ nops = 0

Stamped(banner, once) ==
    [op |-> "stamp", banner |-> banner, once |-> once,
     twice |-> _upsert_editor_banner_simple(once, banner)]

(* one call and two calls in a row with the same banner value *)
Stamp(banner) ==
    /\ nops < MaxOps
    /\ last' = Stamped(banner, _upsert_editor_banner_simple(raw_text, banner))
    /\ nops' = nops + 1
    /\ UNCHANGED <<raw_text, file_text, pre_text>>

NextBanner == \E banner \in Banners : Stamp(banner)

SpecBanner == InitBanner /\ [][NextBanner]_vars

(* C5: two stamps in a row with one banner value leave what one leaves *)
C5_StampTwiceIsStampOnce == last.op = "stamp" => last.twice = last.once

----------------------------------------------------------------------------
(* The record mutators as functions of a document *)

InitMutator ==
    /\ raw_text \in Docs
    /\ file_text = raw_text
    /\ pre_text = raw_text
    /\ last = [op |-> "load"]
    /\ nops = 0

Mutated(op, key, r) == [op |-> op, key |-> key, ok |-> r.ok, text |-> r.text]

(* self._surgical_delete_ship_by_key(key) *)
Delete(key) ==
    /\ nops < MaxOps
    /\ last' = Mutated("delete", key, _surgical_delete_ship_by_key(raw_text, key))
    /\ nops' = nops + 1
    /\ UNCHANGED <<raw_text, file_text, pre_text>>

(* self._surgical_insert_ship_block(ship, cluster_by_side=True) *)
Insert(ship) ==
    /\ nops < MaxOps
    /\ last' = Mutated("insert", GetStr(ship, kkey), _surgical_insert_ship_block(raw_text, ship))
    /\ nops' = nops + 1
    /\ UNCHANGED <<raw_text, file_text, pre_text>>

(* discriminants with a space, a quote and a backslash in them *)
OddKeys == {<<"a", " ", "b">>, <<"a", "\"", "b">>, <<"a", "\\", "b">>}

OddShips == {<<<<kkey, StrV(key)>>, <<kside, StrV(<<"q">>)>>>> : key \in OddKeys}

Relocate(key, ins) ==
    [op |-> "relocate", key |-> key, ok |-> ins.ok, text |-> ins.text,
     span |-> FirstSpan(ins.text, key)]

(* the insert of a record that is not in the text and the lookup by its   *)
(* discriminant in what the insert left                                    *)
InsertLocate(ship) ==
    /\ nops < MaxOps
    /\ FirstSpan(raw_text, KeyVal(ship)) = None
    /\ last' = Relocate(KeyVal(ship), _surgical_insert_ship_block(raw_text, ship))
    /\ nops' = nops + 1
    /\ UNCHANGED <<raw_text, file_text, pre_text>>

(* the insert of r into what the delete left, when the delete found it *)
InsertAfter(del, r) ==
    IF del.ok THEN _surgical_insert_ship_block(del.text, ShipOf(r)) ELSE del

(* the delete of record j and then the insert of a record equal to it *)
Reinsert(j) ==
    /\ nops < MaxOps
    /\ last' = Mutated("reinsert", Rec(j).key,
                       InsertAfter(_surgical_delete_ship_by_key(raw_text, Rec(j).key), Rec(j)))
    /\ nops' = nops + 1
    /\ UNCHANGED <<raw_text, file_text, pre_text>>

NextMutator ==
    \/ \E key \in Wanteds : Delete(key)
    \/ \E ship \in NewShips : Insert(ship)
    \/ \E j \in 1 .. MaxRecs : Reinsert(j)
    \/ \E ship \in NewShips \cup OddShips : InsertLocate(ship)

SpecMutator == InitMutator /\ [][NextMutator]_vars

(* the text without its white space *)
Squeeze(text) == SelectSeq(text, LAMBDA ch : ~IsSpace(ch))

(* rs without its j-th element *)
Without(rs, j) == SubSeq(rs, 1, j - 1) \o SubSeq(rs, j + 1, Len(rs))

(* C6: the delete of record j of a generated document of k records leaves *)
(* the other records in order, each as it was, one comma between two, none *)
(* after the bracket, and the text around the array as it was.             *)
C6_DeleteLeavesTheOthers ==
    \A style \in Styles, k \in 1 .. MaxRecs, j \in 1 .. MaxRecs :
        (j <= k /\ last.op = "delete" /\ last.key = Rec(j).key /\ raw_text = MakeDoc(style, k))
        => /\ last.ok
           /\ Squeeze(last.text) = Squeeze(DocOf(style, Without(Recs(k), j)))
           /\ StartsWith(last.text, Head_(style), 0)
           /\ EndsWith(last.text, Tail_(style, 0))
           /\ \A i \in 1 .. k : i # j => Contains(last.text, Obj(style, Rec(i)))

(* no comma next to a comma or a bracket and no two records without one *)
GoodSeparators(squeezed) ==
    /\ ~Contains(squeezed, <<",", ",">>)
    /\ ~Contains(squeezed, <<"[", ",">>)
    /\ ~Contains(squeezed, <<",", "]">>)
    /\ ~Contains(squeezed, <<"}", "{">>)

(* C7: an insert into a generated document leaves one comma between every *)
(* two adjacent records and no comma without a record on each side.        *)
C7_InsertKeepsSingleSeparators ==
    (last.op = "insert" /\ last.ok /\ raw_text \in Docs) => GoodSeparators(Squeeze(last.text))

(* C8: the delete of record j and the insert of an equal record leave as  *)
(* many top-level records as before and every other record as it was.      *)
C8_ReinsertKeepsTheOthers ==
    \A style \in Styles, k \in 1 .. MaxRecs, j \in 1 .. MaxRecs :
        (j <= k /\ last.op = "reinsert" /\ last.key = Rec(j).key /\ raw_text = MakeDoc(style, k))
        => /\ last.ok
           /\ Len(BlocksIn(last.text, _extract_ship_list_region(last.text))) = k
           /\ \A i \in 1 .. k :
                i # j => Obj(style, Rec(i))
                            \in RecordTexts(last.text,
                                    BlocksIn(last.text, _extract_ship_list_region(last.text)))


(* the number of records after which a ship of that side goes into a      *)
(* generated document of k records: the last record of that side when      *)
(* there is one, else the last record                                      *)
PlaceOf(side, k) ==
    LET same == {j \in 1 .. k : side # <<>> /\ CaseFold(Rec(j).side) = CaseFold(side)}
    IN  IF same = {} THEN k ELSE Greatest(same)

(* the texts of the top-level records of the array of text, in order *)
RecordSeq(text, blocks) == [b \in 1 .. Len(blocks) |-> Slice(text, blocks[b][1], blocks[b][2])]

(* rs is the k records of the generated document with one record for key  *)
(* put after the first p of them                                           *)
InsertedAt(rs, style, k, p, key) ==
    /\ Len(rs) = k + 1
    /\ \A i \in 1 .. k : rs[IF i <= p THEN i ELSE i + 1] = Obj(style, Rec(i))
    /\ Contains(rs[p + 1], Q(key))

(* C18: an insert into a generated document of k records puts the new     *)
(* record right after the last record of its side, or last when no record  *)
(* has its side; the array then holds k + 1 records, the old ones in their *)
(* order.                                                                  *)
C18_InsertionPoint ==
    \A style \in Styles, k \in 0 .. MaxRecs, s \in NewShips :
        (last.op = "insert" /\ raw_text = MakeDoc(style, k) /\ last.key = GetStr(s, kkey))
        => /\ last.ok
           /\ InsertedAt(RecordSeq(last.text,
                                   BlocksIn(last.text, _extract_ship_list_region(last.text))),
                         style, k, PlaceOf(GetStr(s, kside), k), last.key)


(* C27: when a record whose discriminant no record of the text has is    *)
(* inserted, the lookup by that discriminant in the new text finds a      *)
(* record, and that record holds the discriminant as the insert wrote it.  *)
C27_InsertedRecordIsLocated ==
    (last.op = "relocate" /\ last.ok)
        => /\ last.span # None
           /\ Contains(Slice(last.text, last.span[1], last.span[2]),
                       _repr_hjson_scalar(StrV(last.key)))

----------------------------------------------------------------------------
(* The scanning loops pass by pass, over texts well formed or not: last.st *)
(* is the state of the loop variables and nops counts the passes.           *)

MaxText == 3

ScanChars == {"[", "]", "{", "}", "\"", "\\", "/", "*", "#", "\n"}

RECURSIVE TextsOf(_)
TextsOf(n) ==
    IF n = 0 THEN {<<>>}
    ELSE TextsOf(n - 1) \cup {Append(t, ch) : t \in {u \in TextsOf(n - 1) : Len(u) = n - 1},
                                             ch \in ScanChars}

ScanTexts == TextsOf(MaxText) \cup UnterminatedDocs

Loops == {"skip", "array", "flow", "forward", "backward", "list_skip", "list_balance"}

(* where the code starts each loop: the balances at the opening bracket or *)
(* brace, the others at any offset                                         *)
StartsAt(loop, text, start) ==
    CASE loop \in {"array", "flow", "list_balance"} -> At(text, start) = "["
      [] loop = "forward" -> At(text, start) = "{"
      [] OTHER -> TRUE

(* the loop variables before the first pass *)
LoopState0(loop, start) ==
    IF loop = "flow"
    THEN [i |-> start, in_q |-> "", depth |-> 0, b_start |-> -1, out |-> <<>>, done |-> FALSE]
    ELSE Scan0(start)

(* the loop condition: "while i >= 0" for the backward walk, "while i < n" *)
(* for the others, and no break or return so far                           *)
Running(loop, text, st) ==
    ~st.done /\ (IF loop = "backward" THEN st.i >= 0 ELSE st.i < Len(text))

InitScanner ==
    /\ raw_text \in ScanTexts
    /\ file_text = raw_text
    /\ pre_text = raw_text
    /\ last = [op |-> "load"]
    /\ nops = 0

BeginScan(loop, start) ==
    /\ last.op = "load"
    /\ StartsAt(loop, raw_text, start)
    /\ last' = [op |-> "scan", loop |-> loop, st |-> LoopState0(loop, start)]
    /\ UNCHANGED <<raw_text, file_text, pre_text, nops>>

ScanPass ==
    /\ last.op = "scan"
    /\ Running(last.loop, raw_text, last.st)
    /\ nops <= Len(raw_text)
    /\ last' = [last EXCEPT !.st = Step(last.loop, raw_text, last.st)]
    /\ nops' = nops + 1
    /\ UNCHANGED <<raw_text, file_text, pre_text>>

NextScanner ==
    \/ \E loop \in Loops, start \in 0 .. Len(raw_text) - 1 : BeginScan(loop, start)
    \/ ScanPass

SpecScanner == InitScanner /\ [][NextScanner]_vars

(* C15: no scanning loop makes more passes than the text has characters,  *)
(* whatever the text: each pass moves the cursor towards the end of the    *)
(* text (the start, for the backward walk) or leaves the loop.             *)
C15_ScansAreBounded == last.op = "scan" => nops <= Len(raw_text)

(* the array balance has run off the end of a text whose block comment and *)
(* array never close                                                       *)
C15_Witness ==
    /\ last.op = "scan"
    /\ last.loop = "array"
    /\ raw_text = <<"[", "/", "*">>
    /\ ~Running(last.loop, raw_text, last.st)
    /\ last.st.end = -1


----------------------------------------------------------------------------
(* The pretty renderers as functions of a value: maps and lists nested up *)
(* to MaxNest levels, rendered at an indentation.                          *)

MaxNest == 2

RenderScalars == {NumV(1), StrV(<<"a">>)}

RenderKeys == << <<"p">>, <<"q">> >>

RECURSIVE RenderValues(_)
RenderValues(n) ==
    IF n = 0 THEN RenderScalars
    ELSE LET below == RenderValues(n - 1)
         IN  RenderScalars
             \cup {ListV(arr) : arr \in UNION {[1 .. k -> below] : k \in 0 .. 2}}
             \cup {MapV([j \in 1 .. Len(vs) |-> <<RenderKeys[j], vs[j]>>]) :
                      vs \in UNION {[1 .. k -> below] : k \in 0 .. 2}}

Indents == {<<>>, <<" ", " ">>}

InitRenderer ==
    /\ raw_text = <<>>
    /\ file_text = raw_text
    /\ pre_text = raw_text
    /\ last \in {[op |-> "value", v |-> v] : v \in RenderValues(MaxNest)}
    /\ nops = 0

Rendered_(v, text) ==
    /\ last' = [op |-> "render", v |-> v, text |-> text]
    /\ UNCHANGED <<raw_text, file_text, pre_text, nops>>

RenderMap(indent) ==
    /\ last.op = "value"
    /\ last.v.kind = "map"
    /\ Rendered_(last.v, _repr_hjson_map_pretty(last.v.items, indent))

RenderList(indent) ==
    /\ last.op = "value"
    /\ last.v.kind = "list"
    /\ Rendered_(last.v, _repr_hjson_list_pretty(last.v.items, indent))

NextRenderer ==
    \/ \E indent \in Indents : RenderMap(indent)
    \/ \E indent \in Indents : RenderList(indent)

SpecRenderer == InitRenderer /\ [][NextRenderer]_vars

(* the value written with a comma between the items of a collection and   *)
(* none after the last                                                     *)
RECURSIVE Compact(_)
Compact(v) ==
    CASE v.kind = "map" ->
            <<"{">> \o Join([j \in 1 .. Len(v.items) |->
                                <<"\"">> \o v.items[j][1] \o <<"\"", ":">> \o Compact(v.items[j][2])],
                            <<",">>) \o <<"}">>
      [] v.kind = "list" ->
            <<"[">> \o Join([j \in 1 .. Len(v.items) |-> Compact(v.items[j])], <<",">>) \o <<"]">>
      [] OTHER -> _repr_hjson_scalar(v)

(* C21: in a rendered map or list, at every nesting level, each item but  *)
(* the last is followed by a comma and the last item by none: without its *)
(* white space the rendered text is the value written with commas between *)
(* the items only.                                                         *)
C21_LastItemHasNoComma == last.op = "render" => Squeeze(last.text) = Compact(last.v)


----------------------------------------------------------------------------
(* A surgical save statement by statement: last.pc is the position in     *)
(* _surgical_save_current_ship, last.done the steps taken so far and       *)
(* last.file0 the file before the save.                                    *)

StampedDocs == {_upsert_editor_banner_simple(d, _format_editor_banner_value(0)) : d \in Docs}

InitSaveSteps ==
    /\ raw_text \in Docs \cup StampedDocs
    /\ file_text = raw_text
    /\ pre_text = raw_text
    /\ last = [op |-> "load"]
    /\ nops = 0

(* the step taken and the position reached *)
Reach(pc, step) == [last EXCEPT !.pc = pc, !.done = Append(@, step)]

BeginSave(ship, updates, banner) ==
    /\ last.op = "load"
    /\ last' = [op |-> "save", pc |-> "begin", ship |-> ship, ups |-> updates, banner |-> banner,
                span |-> None, block |-> <<>>, file0 |-> file_text, done |-> <<>>]
    /\ nops' = nops + 1
    /\ UNCHANGED <<raw_text, file_text, pre_text>>

(* the lookup by key, then by name; an empty text raises *)
LocateStep ==
    /\ last.op = "save" /\ last.pc = "begin"
    /\ LET span == OrByName(raw_text, FirstSpan(raw_text, KeyVal(last.ship)),
                            GetStr(last.ship, kname))
       IN  last' = IF raw_text = <<>> THEN Reach("failed", "locate")
                   ELSE [Reach(IF span = None THEN "missing" ELSE "located", "locate")
                            EXCEPT !.span = span]
    /\ UNCHANGED <<raw_text, file_text, pre_text, nops>>

(* the span of the record after its insert, None when it is not found *)
Relocated(text, ship) ==
    FirstSpan(text, IF KeyVal(ship) # <<>> THEN KeyVal(ship) ELSE GetStr(ship, kname))

InsertedStep(ins) ==
    /\ raw_text' = ins.text
    /\ last' = IF ~ins.ok THEN Reach("failed", "insert")
               ELSE IF Relocated(ins.text, last.ship) = None THEN Reach("failed", "insert")
               ELSE [Reach("located", "insert") EXCEPT !.span = Relocated(ins.text, last.ship)]

(* the record was not found: it is inserted and looked up again *)
InsertStep ==
    /\ last.op = "save" /\ last.pc = "missing"
    /\ InsertedStep(_surgical_insert_ship_block(raw_text, Update(last.ship, last.ups)))
    /\ UNCHANGED <<file_text, pre_text, nops>>

(* the loop over the updates, on a copy of the block *)
PatchStep ==
    /\ last.op = "save" /\ last.pc = "located"
    /\ last' = [Reach("patched", "patch") EXCEPT
                   !.block = ApplyUpdates(Slice(raw_text, last.span[1], last.span[2]),
                                          Sorted(last.ups), 1)]
    /\ UNCHANGED <<raw_text, file_text, pre_text, nops>>

SpliceStep ==
    /\ last.op = "save" /\ last.pc = "patched"
    /\ raw_text' = Slice(raw_text, 0, last.span[1]) \o last.block
                      \o Slice(raw_text, last.span[2], Len(raw_text))
    /\ last' = Reach("spliced", "splice")
    /\ UNCHANGED <<file_text, pre_text, nops>>

StampStep ==
    /\ last.op = "save" /\ last.pc = "spliced"
    /\ raw_text' = _upsert_editor_banner_simple(raw_text, last.banner)
    /\ last' = Reach("stamped", "stamp")
    /\ UNCHANGED <<file_text, pre_text, nops>>

WriteStep ==
    /\ last.op = "save" /\ last.pc = "stamped"
    /\ file_text' = raw_text
    /\ last' = Reach("written", "write")
    /\ UNCHANGED <<raw_text, pre_text, nops>>

NextSaveSteps ==
    \/ \E ship \in Ships, updates \in UpdateSets : BeginSave(ship, updates, _format_editor_banner_value(1))
    \/ LocateStep
    \/ InsertStep
    \/ PatchStep
    \/ SpliceStep
    \/ StampStep
    \/ WriteStep

SpecSaveSteps == InitSaveSteps /\ [][NextSaveSteps]_vars

(* the steps of a save that found its record, and of one that inserted it *)
SaveOrder == <<"locate", "patch", "splice", "stamp", "write">>

SaveOrderInserting == <<"locate", "insert", "patch", "splice", "stamp", "write">>

IsPrefix(a, b) == Len(a) <= Len(b) /\ a = SubSeq(b, 1, Len(a))

(* C23: the steps of a save are taken in the order locate, patch, splice, *)
(* stamp, write (with the insert after the locate when the record is      *)
(* missing); the file changes only by the one write after the stamp, the   *)
(* text written holds the banner line, and a save that fails writes        *)
(* nothing.                                                                *)
C23_SaveOrder ==
    last.op = "save"
    => /\ IsPrefix(last.done, SaveOrder) \/ IsPrefix(last.done, SaveOrderInserting)
       /\ last.pc # "written" => file_text = last.file0
       /\ last.pc = "written"
            => /\ last.done \in {SaveOrder, SaveOrderInserting}
               /\ file_text = raw_text
               /\ Contains(file_text, BannerLine(last.banner))

(* a save that inserted its record has written the file, and a save has   *)
(* failed after its insert with the file as it was                         *)
C23_Witness ==
    /\ last.op = "save"
    /\ last.pc = "written"
    /\ last.done = SaveOrderInserting
    /\ file_text # last.file0


----------------------------------------------------------------------------
(* The editor session with its loads: last.mode is _save_mode, last.ships *)
(* the record list in memory, raw_text the held text (empty for None) and  *)
(* file_text the file.  last.src is the file content the record list was   *)
(* parsed from and last.held the one the held text was read from.          *)

MaxSession == 4

(* A file as the text up to the colon of the records-array key, the white *)
(* space and comments after it, and the rest; parses tells whether the     *)
(* parser of its dialect accepts it and k is the number of its records.    *)
LoadCase(name, pre, gap, rest, parses, k) ==
    [name |-> name, pre |-> pre, gap |-> gap, rest |-> rest, parses |-> parses, k |-> k]

HjsonPre == <<"{", "\n", " ", "s", "h", "i", "p", "-", "l", "i", "s", "t", ":">>

HjsonArray == <<"[", "\n">> \o Items("hjson", Recs(1), 1) \o Tail_("hjson", 1)

LoadCases ==
    { LoadCase("hjson", HjsonPre, <<" ">>, HjsonArray, TRUE, 1),
      LoadCase("commented", HjsonPre,
               <<" ", "/", "/", " ", "[", " ", "]", "\n", " ", "/", "*", " ", "{", " ", "*",
              "/", " ">>,
               HjsonArray, TRUE, 1),
      LoadCase("yaml", <<"s", "h", "i", "p", "-", "l", "i", "s", "t", ":">>, <<"\n">>,
               <<"-", " ", "k", "e", "y", ":", " ", "a", "\n", " ", " ", "s", "i", "d", "e",
              ":", " ", "x", "\n", " ", " ", "n", ":", " ", "1", "\n">>,
               TRUE, 1),
      LoadCase("unterminated", HjsonPre, <<" ">>,
               <<"[", "\n", " ", " ", "{", "\n", " ", " ", " ", "k", "e", "y", ":", " ",
              "a", "\n", " ", " ", "}", "\n", "}", "\n">>,
               FALSE, 0),
      LoadCase("broken_yaml", <<"s", "h", "i", "p", "-", "l", "i", "s", "t", ":">>, <<" ">>, <<"{">>, FALSE, 0) }

CaseDoc(c) == c.pre \o c.gap \o c.rest

CaseOf(text) == CHOOSE c \in LoadCases : CaseDoc(c) = text

(* the text the round-trip serializer writes is not derived here: it is   *)
(* one of the block-style texts                                            *)
Dumps == {CaseDoc(c) : c \in {d \in LoadCases : d.parses /\ d.rest[1] # "["}}

SessionUpdates == << <<kkey, StrV(<<"q">>)>> >>

InitSession ==
    /\ file_text \in {CaseDoc(c) : c \in LoadCases}
    /\ raw_text = <<>>
    /\ pre_text = <<>>
    /\ last \in {[op |-> "init", ok |-> TRUE, mode |-> "yaml", ships |-> <<>>, src |-> <<>>,
                  held |-> <<>>, looks |-> FALSE, used |-> "none", rec |-> 0, saves |-> 0,
                  count0 |-> 0, had |-> FALSE, yaml_lib |-> lib] : lib \in BOOLEAN}
    /\ nops = 0

(* the file is replaced from outside the editor *)
FileChanges(c) ==
    /\ nops < MaxSession
    /\ file_text # CaseDoc(c)
    /\ file_text' = CaseDoc(c)
    /\ last' = [last EXCEPT !.op = "edit"]
    /\ nops' = nops + 1
    /\ UNCHANGED <<raw_text, pre_text>>

(* load_data when the file has the text of case c: the held text is       *)
(* assigned first, the mode and the record list after the parse           *)
Loaded(c, looks) ==
    IF (looks /\ c.parses) \/ (~looks /\ last.yaml_lib /\ c.parses)
    THEN [last EXCEPT !.op = "load", !.ok = TRUE, !.looks = looks, !.held = CaseDoc(c),
                      !.mode = IF looks THEN "surgical" ELSE "yaml",
                      !.ships = [j \in 1 .. c.k |-> ShipOf(Rec(j))], !.src = CaseDoc(c),
                      !.used = "none", !.rec = 0, !.saves = 0]
    ELSE [last EXCEPT !.op = "load", !.ok = FALSE, !.looks = looks, !.held = CaseDoc(c),
                      !.used = "none", !.rec = 0, !.saves = 0]

Load ==
    /\ nops < MaxSession
    /\ file_text \in {CaseDoc(c) : c \in LoadCases}
    /\ raw_text' = file_text
    /\ last' = Loaded(CaseOf(file_text), _looks_hjsonish(file_text))
    /\ pre_text' = raw_text
    /\ nops' = nops + 1
    /\ UNCHANGED file_text

RecordCount(text) == Len(BlocksIn(text, _extract_ship_list_region(text)))

(* the run of saves of record j: its first save notes the number of       *)
(* records and whether the record was in the held text                     *)
RunOf(j) ==
    IF last.op = "save" /\ last.rec = j
    THEN [last EXCEPT !.saves = @ + 1]
    ELSE [last EXCEPT !.rec = j, !.saves = 1, !.count0 = RecordCount(raw_text),
                      !.had = FirstSpan(raw_text, KeyVal(last.ships[j])) # None]

SurgicalSaved(j, r) ==
    /\ raw_text' = r.text
    /\ file_text' = IF r.wrote THEN r.text ELSE file_text
    /\ last' = [RunOf(j) EXCEPT !.op = "save", !.ok = r.ok, !.used = "surgical"]

(* the round-trip branch: the record in memory takes the new values and   *)
(* the serialized document is stamped and written                          *)
YamlSaved(j, dumped, banner) ==
    /\ file_text' = _upsert_editor_banner_simple(dumped, banner)
    /\ last' = [RunOf(j) EXCEPT !.op = "save", !.ok = TRUE, !.used = "yaml",
                                !.ships = [last.ships EXCEPT ![j] = Update(@, SessionUpdates)]]
    /\ UNCHANGED raw_text

(* save_changes of record j of the list *)
SaveRecord(j, banner) ==
    /\ nops < MaxSession
    /\ j \in 1 .. Len(last.ships)
    /\ IF last.mode = "surgical"
       THEN SurgicalSaved(j, _surgical_save_current_ship(raw_text, last.ships[j],
                                                         SessionUpdates, banner))
       ELSE \E dumped \in Dumps : YamlSaved(j, dumped, banner)
    /\ pre_text' = raw_text
    /\ nops' = nops + 1

SurgicalDeleted(j, r, banner) ==
    /\ raw_text' = IF r.ok THEN _upsert_editor_banner_simple(r.text, banner) ELSE raw_text
    /\ file_text' = IF r.ok THEN raw_text' ELSE file_text
    /\ last' = [last EXCEPT !.op = "delete", !.ok = r.ok, !.used = "surgical",
                            !.ships = Without(last.ships, j)]

YamlDeleted(j, dumped, banner) ==
    /\ file_text' = _upsert_editor_banner_simple(dumped, banner)
    /\ last' = [last EXCEPT !.op = "delete", !.ok = TRUE, !.used = "yaml",
                            !.ships = Without(last.ships, j)]
    /\ UNCHANGED raw_text

(* delete_ship of record j of the list *)
DeleteRecord(j, banner) ==
    /\ nops < MaxSession
    /\ j \in 1 .. Len(last.ships)
    /\ Has(last.ships[j], kkey)
    /\ IF last.mode = "surgical"
       THEN SurgicalDeleted(j, _surgical_delete_ship_by_key(raw_text, KeyVal(last.ships[j])),
                            banner)
       ELSE \E dumped \in Dumps : YamlDeleted(j, dumped, banner)
    /\ pre_text' = raw_text
    /\ nops' = nops + 1

NextSession ==
    \/ \E c \in LoadCases : FileChanges(c)
    \/ Load
    \/ \E j \in 1 .. MaxRecs : SaveRecord(j, _format_editor_banner_value(nops))
    \/ \E j \in 1 .. MaxRecs : DeleteRecord(j, _format_editor_banner_value(nops))

SpecSession == InitSession /\ [][NextSession]_vars

(* C24: a load finds the file bracketed exactly when the first character  *)
(* after the key's colon that is neither white space nor comment is "[",  *)
(* and every save and delete runs in the mode that goes with what the      *)
(* latest load found: surgical when bracketed, round-trip otherwise.      *)
C24_SnifferSelectsTheMode ==
    /\ \A c \in LoadCases :
          (last.op = "load" /\ raw_text = CaseDoc(c)) => (last.looks <=> c.rest[1] = "[")
    /\ last.op \in {"save", "delete"}
          => last.used = (IF last.looks THEN "surgical" ELSE "yaml")

(* C25: saves of one record in a row, the record being in the held text   *)
(* at the first of them, leave the number of records of the held text as  *)
(* it was, also when they change the key.                                  *)
C25_RepeatedSaveKeepsCount ==
    (last.op = "save" /\ last.used = "surgical" /\ last.had /\ last.held = last.src)
        => RecordCount(raw_text) = last.count0

(* C29: the held text and the record list come from the same loaded file  *)
(* content, whose mode is the save mode, and a load that fails leaves the *)
(* held text as it was.                                                    *)
C29_FailedLoadKeepsSession ==
    /\ last.held = last.src
    /\ (last.op = "load" /\ ~last.ok) => raw_text = pre_text
    /\ last.src # <<>> => last.mode = (IF _looks_hjsonish(last.src) THEN "surgical" ELSE "yaml")

----------------------------------------------------------------------------
(* The shape of the held document along a session in surgical mode *)

(* the text of the array outside its top-level records, in order, from  *)
(* after the opening bracket to before the closing one                    *)
RECURSIVE GapsFrom(_, _, _, _)
GapsFrom(text, blocks, b, from) ==
    IF b > Len(blocks) THEN <<>>
    ELSE Slice(text, from, blocks[b][1]) \o GapsFrom(text, blocks, b + 1, blocks[b][2])

Gaps(text, region) ==
    LET blocks == BlocksIn(text, region)
    IN  GapsFrom(text, blocks, 1, region[1] + 1)
            \o Slice(text, IF blocks = <<>> THEN region[1] + 1 ELSE blocks[Len(blocks)][2],
                     region[2] - 1)

GapsAreSeparators(text, region) ==
    \A i \in 1 .. Len(Gaps(text, region)) : Gaps(text, region)[i] \in {",", " ", "\n", "\r", "\t"}

(* balanced, the records array found, and nothing between its records but *)
(* commas, line breaks and white space                                     *)
WellFormed(text) ==
    /\ Balanced(text)
    /\ _extract_ship_list_region(text) # None
    /\ GapsAreSeparators(text, _extract_ship_list_region(text))

(* the records an operation adds *)
Delta(l) == IF l.op = "delete" THEN -1 ELSE IF l.inserted THEN 1 ELSE 0

KeepsWellFormed ==
    (WellFormed(raw_text) /\ last'.ok)
        => /\ WellFormed(raw_text')
           /\ RecordCount(raw_text') = RecordCount(raw_text) + Delta(last')

(* C26: a save or a delete that succeeds on a well-formed document leaves *)
(* a well-formed document: braces and brackets balanced, the records array *)
(* found, one record more after an insert, one less after a delete, as     *)
(* many after an update, and between the records only commas, line breaks  *)
(* and white space.                                                        *)
C26_WellFormednessIsKept == [][KeepsWellFormed]_vars

====
